---------------------------- MODULE Spec2Model ----------------------------
(***************************************************************************)
(* Chunked transcription pipeline of DOIRP24/transcribe.                   *)
(*                                                                         *)
(*   lib/audio-chunks.ts  getAudioDuration, addOffsetToTimestamp,          *)
(*                        splitAudioIntoChunks                             *)
(*   lib/transcribe.ts    parseGeminiJson, runSingleChunk,                 *)
(*                        runGeminiTranscription (with processBatch)       *)
(*   lib/directus.ts      updateTask                                       *)
(*                                                                         *)
(* One run of runGeminiTranscription is modelled.  The JavaScript event    *)
(* loop runs one continuation at a time, so a step of the model is the     *)
(* code between two awaits: the awaited external call returns (or throws)  *)
(* and the code runs on to the next await.  The orchestrator and the       *)
(* callbacks of the current window interleave at these points.             *)
(***************************************************************************)
EXTENDS Integers, Sequences, FiniteSets, TLC

(***************************************************************************)
(* Bounds of the model and constants of the program.                       *)
(***************************************************************************)
\* largest number of chunks a modelled source is split into
MaxChunks == 3

\* audio-chunks.ts:8
CHUNK_DURATION_SEC == 600
\* transcribe.ts: const CONCURRENCY = 2
CONCURRENCY == 2
\* transcribe.ts: runSingleChunk(..., retries = 2)
RETRIES == 2
\* transcribe.ts: while (currentFile.state === "PROCESSING" && waitAttempts < 60)
POLL_CEILING == 60
\* transcribe.ts: Math.pow(2, attempt) * 2000
BACKOFF_BASE_MS == 2000

ChunkIds == 0 .. (MaxChunks - 1)

(***************************************************************************)
(* Inputs: the durations (seconds) of the modelled sources.  A source of   *)
(* CHUNK_DURATION_SEC * k - 300 seconds is cut into k chunks, the last     *)
(* one shorter; 601 gives a last chunk of one second.                      *)
(***************************************************************************)
Durations ==
    {CHUNK_DURATION_SEC, CHUNK_DURATION_SEC + 1}
        \cup {CHUNK_DURATION_SEC * k - 300 : k \in 1 .. MaxChunks}

(***************************************************************************)
(* Arithmetic helpers of the JavaScript runtime.                           *)
(***************************************************************************)
Min(a, b) == IF a <= b THEN a ELSE b
Max(a, b) == IF a >= b THEN a ELSE b

\* Math.ceil(a / b) for a >= 0, b > 0
CeilDiv(a, b) == (a + b - 1) \div b

\* Math.floor for Math.round
RoundDiv_floor(a, b) == a \div b

\* Math.round(a / b) for a >= 0, b > 0: halves round up
RoundDiv(a, b) == (2 * a + b) \div (2 * b)

(***************************************************************************)
(* Timecodes.  A timecode string "HH:MM:SS" is the sequence of its fields  *)
(* (split(":")), each field the sequence of its decimal digits.            *)
(***************************************************************************)
RECURSIVE Number(_)
\* Number("0123") = 123, Number("") = 0
Number(digits) ==
    IF Len(digits) = 0 THEN 0
    ELSE 10 * Number(SubSeq(digits, 1, Len(digits) - 1)) + digits[Len(digits)]

RECURSIVE String(_)
\* String(n) for an integer n >= 0: its decimal digits, no leading zero
String(n) ==
    IF n < 10 THEN <<n>> ELSE Append(String(n \div 10), n % 10)

RECURSIVE padStart(_, _, _)
\* s.padStart(len, fill)
padStart(s, len, fill) ==
    IF Len(s) >= len THEN s ELSE padStart(<<fill>> \o s, len, fill)

\* const [h = 0, m = 0, s = 0] = parts
Field(parts, k) == IF k <= Len(parts) THEN Number(parts[k]) ELSE 0

\* hours wrapped at midnight
addOffsetToTimestamp_wraps(timeStr, offsetSec) ==
    LET h == Field(timeStr, 1)
        m == Field(timeStr, 2)
        s == Field(timeStr, 3)
        totalSeconds == h * 3600 + m * 60 + s + offsetSec
        newH == (totalSeconds \div 3600) % 24
        newM == (totalSeconds % 3600) \div 60
        newS == totalSeconds % 60
    IN  <<padStart(String(newH), 2, 0),
          padStart(String(newM), 2, 0),
          padStart(String(newS), 2, 0)>>

\* minutes taken from the whole total (the % 3600 left out)
addOffsetToTimestamp_noHourModulo(timeStr, offsetSec) ==
    LET h == Field(timeStr, 1)
        m == Field(timeStr, 2)
        s == Field(timeStr, 3)
        totalSeconds == h * 3600 + m * 60 + s + offsetSec
        newH == totalSeconds \div 3600
        newM == totalSeconds \div 60
        newS == totalSeconds % 60
    IN  <<padStart(String(newH), 2, 0),
          padStart(String(newM), 2, 0),
          padStart(String(newS), 2, 0)>>

\* audio-chunks.ts: addOffsetToTimestamp(timeStr, offsetSec)
addOffsetToTimestamp(timeStr, offsetSec) ==
    LET h == Field(timeStr, 1)
        m == Field(timeStr, 2)
        s == Field(timeStr, 3)
        totalSeconds == h * 3600 + m * 60 + s + offsetSec
        newH == totalSeconds \div 3600
        newM == (totalSeconds % 3600) \div 60
        newS == totalSeconds % 60
    IN  <<padStart(String(newH), 2, 0),
          padStart(String(newM), 2, 0),
          padStart(String(newS), 2, 0)>>

\* the timecode HH:MM:SS of a number of seconds, as the service writes it
Timecode(sec) == addOffsetToTimestamp(<<>>, sec)


(***************************************************************************)
(* JavaScript values.  null and undefined are records of their own; an     *)
(* object is the record of its fields, so a missing field is a name that   *)
(* is not in its DOMAIN.                                                   *)
(***************************************************************************)
Null == [null |-> TRUE]
Undefined == [undefined |-> TRUE]

\* a status message (error_message): the template and what it is filled with
Msg(kind, part, total, pct) ==
    [kind |-> kind, part |-> part, total |-> total, pct |-> pct]
Text(kind) == Msg(kind, 0, 0, 0)
NoMessage == Text("")

\* no updateTask call was issued yet
NoWrite == [body |-> Undefined, ok |-> FALSE]

(***************************************************************************)
(* Replies of the service.  A reply text is strict JSON ("json"), text     *)
(* that JSON.parse rejects and jsonrepair repairs ("broken"), text that    *)
(* neither accepts ("garbage"), or empty/blank text ("empty").             *)
(***************************************************************************)
SegmentCount(i) == 1 + (i % 2)
LanguageOf(i) == <<"", "en", "", "ru">>[(i % 4) + 1]
SpeakersOf(i) == <<2, 1, 3, 0>>[(i % 4) + 1]

\* segment k (1-based) of chunk i, with chunk-local timecodes
LocalSegment(i, k) ==
    [start |-> Timecode((k - 1) * 240 + 5),
     end |-> Timecode(k * 240),
     speaker |-> "Speaker A",
     text |-> <<i, k>>]

\* a reply that follows TRANSCRIPTION_RESPONSE_SCHEMA
GoodReply(i) ==
    [segments |-> [k \in 1 .. SegmentCount(i) |-> LocalSegment(i, k)],
     summary |-> <<i>>,
     detected_language |-> LanguageOf(i),
     speakers_count |-> SpeakersOf(i)]

\* an object whose segments list is empty, and one with no segments field
EmptySegmentsReply == [segments |-> <<>>, summary |-> <<>>]
NoSegmentsReply == [summary |-> <<>>]

\* a JavaScript string as a value that has a length: the sequence of its
\* characters, each marked as a character
Chars(s) == [k \in 1 .. Len(s) |-> [char |-> s[k]]]

\* Array.isArray(v), for a value that has a length
IsArray(v) == \A k \in 1 .. Len(v) : "char" \notin DOMAIN v[k]

\* an object whose segments field holds a string: {"segments": "n/a"}
StringSegmentsReply == [segments |-> Chars(<<"n", "/", "a">>), summary |-> <<>>]

\* the reply texts in which every field sent has the type that
\* TRANSCRIPTION_RESPONSE_SCHEMA declares
RawTexts(i) ==
    {[form |-> "empty"], [form |-> "garbage"]}
        \cup {[form |-> f, value |-> v] :
                f \in {"json", "broken"},
                v \in {GoodReply(i), EmptySegmentsReply, NoSegmentsReply, Null}}

\* reply texts that are JSON with a field of another type
UntypedTexts == {[form |-> "json", value |-> StringSegmentsReply]}

\* rawText?.trim() is empty
IsBlank(rawText) == rawText.form = "empty"

\* JSON.parse(text): the value, or a throw
JSONparse(text) ==
    IF text.form = "json" THEN [threw |-> FALSE, value |-> text.value]
    ELSE [threw |-> TRUE]

\* jsonrepair(text): the repaired text, or a throw
jsonrepair(text) ==
    IF text.form \in {"json", "broken"}
    THEN [threw |-> FALSE, text |-> [form |-> "json", value |-> text.value]]
    ELSE [threw |-> TRUE]

\* transcribe.ts: parseGeminiJson(rawText)
parseGeminiJson(rawText) ==
    IF IsBlank(rawText) THEN Null
    ELSE LET strict == JSONparse(rawText)
         IN  IF ~strict.threw THEN strict.value
             ELSE LET repaired == jsonrepair(rawText)
                  IN  IF repaired.threw THEN Null
                      ELSE LET again == JSONparse(repaired.text)
                           IN  IF again.threw THEN Null ELSE again.value

\* a parser without the second pass
ParseTrace_noRepair(rawText) ==
    IF IsBlank(rawText)
    THEN [strict |-> "skipped", repair |-> FALSE, value |-> Null]
    ELSE LET strict == JSONparse(rawText)
         IN  IF ~strict.threw
             THEN [strict |-> "returned", repair |-> FALSE,
                   value |-> strict.value]
             ELSE [strict |-> "threw", repair |-> FALSE, value |-> Null]

\* parseGeminiJson(rawText) with the passes it ran: what became of the
\* strict JSON.parse, whether jsonrepair was called, and the value returned
ParseTrace(rawText) ==
    IF IsBlank(rawText)
    THEN [strict |-> "skipped", repair |-> FALSE, value |-> Null]
    ELSE LET strict == JSONparse(rawText)
         IN  IF ~strict.threw
             THEN [strict |-> "returned", repair |-> FALSE,
                   value |-> strict.value]
             ELSE LET repaired == jsonrepair(rawText)
                  IN  [strict |-> "threw", repair |-> TRUE,
                       value |->
                          IF repaired.threw THEN Null
                          ELSE LET again == JSONparse(repaired.text)
                               IN  IF again.threw THEN Null ELSE again.value]

\* the fields TRANSCRIPTION_RESPONSE_SCHEMA requires
Required == {"segments", "summary", "detected_language", "speakers_count"}

\* res?.segments?.length is truthy
HasSegments(res) == "segments" \in DOMAIN res /\ Len(res.segments) > 0

(***************************************************************************)
(* Merging (runGeminiTranscription, the loop after the windows).           *)
(***************************************************************************)
\* strs.join(sep) over sequences of tokens
RECURSIVE Join(_, _)
Join(strs, sep) ==
    IF Len(strs) = 0 THEN <<>>
    ELSE IF Len(strs) = 1 THEN strs[1]
    ELSE strs[1] \o sep \o Join(Tail(strs), sep)

\* speaker labels rewritten while merging
Adjusted_relabelled(res, offsetSec) ==
    [k \in 1 .. Len(res.segments) |->
        [res.segments[k] EXCEPT
            !.start = addOffsetToTimestamp(res.segments[k].start, offsetSec),
            !.end = addOffsetToTimestamp(res.segments[k].end, offsetSec),
            !.speaker = "Speaker 1"]]

\* res.segments.map(seg => ({...seg, start: ..., end: ...}))
Adjusted(res, offsetSec) ==
    [k \in 1 .. Len(res.segments) |->
        [res.segments[k] EXCEPT
            !.start = addOffsetToTimestamp(res.segments[k].start, offsetSec),
            !.end = addOffsetToTimestamp(res.segments[k].end, offsetSec)]]

EmptyMerge ==
    [allSegments |-> <<>>, summaries |-> <<>>,
     detectedLanguage |-> "", speakersCount |-> 0]

\* an offset of one chunk too many ((i + 1) * CHUNK_DURATION_SEC)
MergeStep_offByOne(acc, res, i) ==
    IF HasSegments(res)
    THEN [allSegments |->
              acc.allSegments \o Adjusted(res, (i + 1) * CHUNK_DURATION_SEC),
          summaries |->
              IF "summary" \in DOMAIN res /\ res.summary # <<>>
              THEN Append(acc.summaries, res.summary) ELSE acc.summaries,
          detectedLanguage |->
              IF "detected_language" \in DOMAIN res /\ res.detected_language # ""
              THEN res.detected_language ELSE acc.detectedLanguage,
          speakersCount |->
              IF "speakers_count" \in DOMAIN res /\ res.speakers_count # 0
              THEN Max(acc.speakersCount, res.speakers_count)
              ELSE acc.speakersCount]
    ELSE acc

\* a language overwritten by every chunk, empty or not
MergeStep_anyLanguage(acc, res, i) ==
    IF HasSegments(res)
    THEN [allSegments |->
              acc.allSegments \o Adjusted(res, i * CHUNK_DURATION_SEC),
          summaries |->
              IF "summary" \in DOMAIN res /\ res.summary # <<>>
              THEN Append(acc.summaries, res.summary) ELSE acc.summaries,
          detectedLanguage |->
              IF "detected_language" \in DOMAIN res
              THEN res.detected_language ELSE acc.detectedLanguage,
          speakersCount |->
              IF "speakers_count" \in DOMAIN res /\ res.speakers_count # 0
              THEN Max(acc.speakersCount, res.speakers_count)
              ELSE acc.speakersCount]
    ELSE acc

\* one iteration of the merge loop, for chunk i with result res
MergeStep(acc, res, i) ==
    IF HasSegments(res)
    THEN [allSegments |->
              acc.allSegments \o Adjusted(res, i * CHUNK_DURATION_SEC),
          summaries |->
              IF "summary" \in DOMAIN res /\ res.summary # <<>>
              THEN Append(acc.summaries, res.summary) ELSE acc.summaries,
          detectedLanguage |->
              IF "detected_language" \in DOMAIN res /\ res.detected_language # ""
              THEN res.detected_language ELSE acc.detectedLanguage,
          speakersCount |->
              IF "speakers_count" \in DOMAIN res /\ res.speakers_count # 0
              THEN Max(acc.speakersCount, res.speakers_count)
              ELSE acc.speakersCount]
    ELSE acc

\* the loop run from the last chunk down
RECURSIVE MergeFrom_descending(_, _, _, _)
MergeFrom_descending(acc, res, i, n) ==
    IF i >= n THEN acc
    ELSE MergeFrom_descending(MergeStep(acc, res[n - 1 - i], n - 1 - i),
                              res, i + 1, n)

\* for (let i = 0; i < totalChunks; i++) { ... } from index i on
RECURSIVE MergeFrom(_, _, _, _)
MergeFrom(acc, res, i, n) ==
    IF i >= n THEN acc ELSE MergeFrom(MergeStep(acc, res[i], i), res, i + 1, n)

MergeResults(res, n) == MergeFrom(EmptyMerge, res, 0, n)

\* res.segments.map(...) is called on a value that has a truthy length and
\* no map method, and throws a TypeError
MapThrows(res, n) ==
    \E i \in 0 .. (n - 1) : HasSegments(res[i]) /\ ~IsArray(res[i].segments)

MapTypeError == Text("res.segments.map is not a function")

\* the result object of the terminal write
\* (detected_language: detectedLanguage || undefined is left out of the
\* serialized result when no language was detected)
ResultOf(m) ==
    LET base == [segments |-> m.allSegments,
                 summary |-> Join(m.summaries, <<"\n\n">>),
                 speakers_count |->
                    IF m.speakersCount # 0 THEN m.speakersCount ELSE 1]
    IN  IF m.detectedLanguage # ""
        THEN [f \in DOMAIN base \cup {"detected_language"} |->
                IF f = "detected_language" THEN m.detectedLanguage ELSE base[f]]
        ELSE base


(***************************************************************************)
(* Files.  tempFilePath is the uploaded source; ChunkPath(i) is            *)
(* `${base}_chunk_${i}${ext}` beside it.                                   *)
(***************************************************************************)
tempFilePath == <<"source", 0>>
ChunkPath(i) == <<"chunk", i>>
Paths == {tempFilePath} \cup {ChunkPath(i) : i \in ChunkIds}

(***************************************************************************)
(* Splitting (audio-chunks.ts).  A duration is <<d>>, or <<>> for null.    *)
(***************************************************************************)
\* getAudioDuration: null without ffmpeg, on an ffprobe error, or when the
\* probed duration is not a positive number
getAudioDuration(ffmpeg, probeOk, dur) ==
    IF ~ffmpeg THEN <<>>
    ELSE IF ~probeOk THEN <<>>
    ELSE IF dur > 0 THEN <<dur>> ELSE <<>>

\* a count that rounds down (Math.floor for Math.ceil)
ChunkCount_floor(dur) == dur \div CHUNK_DURATION_SEC

\* Math.ceil(duration / CHUNK_DURATION_SEC)
ChunkCount(dur) == CeilDiv(dur, CHUNK_DURATION_SEC)

\* the i-th iteration of the splitting loop (0-based)
ChunkPlan(dur, i) ==
    [path |-> ChunkPath(i),
     startSec |-> i * CHUNK_DURATION_SEC,
     durationSec |-> Min(CHUNK_DURATION_SEC, dur - i * CHUNK_DURATION_SEC)]

\* the single chunk that is the source itself
WholeSource == [path |-> tempFilePath, startSec |-> 0, durationSec |-> 0]

\* a splitter that also cuts a source of exactly one chunk (< for <=)
splitAudioIntoChunks_strict(ffmpeg, probeOk, dur) ==
    LET duration == getAudioDuration(ffmpeg, probeOk, dur)
    IN  IF ~ffmpeg THEN <<WholeSource>>
        ELSE IF duration = <<>> \/ duration[1] < CHUNK_DURATION_SEC
        THEN <<WholeSource>>
        ELSE [k \in 1 .. ChunkCount(duration[1]) |-> ChunkPlan(duration[1], k - 1)]

\* splitAudioIntoChunks: the chunks it returns when no ffmpeg run fails
splitAudioIntoChunks(ffmpeg, probeOk, dur) ==
    LET duration == getAudioDuration(ffmpeg, probeOk, dur)
    IN  IF ~ffmpeg THEN <<WholeSource>>
        ELSE IF duration = <<>> \/ duration[1] <= CHUNK_DURATION_SEC
        THEN <<WholeSource>>
        ELSE [k \in 1 .. ChunkCount(duration[1]) |-> ChunkPlan(duration[1], k - 1)]

(***************************************************************************)
(* State.                                                                  *)
(***************************************************************************)
VARIABLES
    \* the environment of the run
    hasKey,         \* process.env.GEMINI_API_KEY is set
    hasFfmpeg,      \* require("fluent-ffmpeg") succeeds
    sourceDuration, \* the duration ffprobe reports for the source
    typedReplies,   \* the service keeps the declared type of every field
    request,        \* the POST /api/upload request that owns the task
    call,           \* a call of addOffsetToTimestamp or parseGeminiJson alone
    \* the task store and the file system
    task,           \* the task record in the store
    answered,       \* the number of updateTask calls that have returned or thrown
    lastWrite,      \* the body and the outcome of the latest of them
    failedWrites,   \* the kinds of updateTask calls that threw so far
    unlinked,       \* per path, the number of unlink calls issued
    materialized,   \* the chunk files ffmpeg was started on
    \* runGeminiTranscription
    pc,             \* the call the orchestrator awaits
    chunks,         \* what splitAudioIntoChunks returned (chunkPaths)
    batchStart,     \* i of the window loop
    completedChunks,
    results,
    merged,         \* allSegments, summaries, detectedLanguage, speakersCount
    err,            \* the message of the exception caught at the top level
    \* the callback of processBatch for chunk i, and its runSingleChunk
    cpc,            \* the call the callback awaits
    attempt,
    geminiFileName, \* <<>> for null, <<a>> for the handle of attempt a
    fileState,      \* currentFile.state
    waitAttempts,
    parsed,
    uploads,        \* the ai.files.upload calls of the runSingleChunk in progress
    remoteDeleted,  \* the handle ai.files.delete was called on in this attempt
    timer,          \* the milliseconds of the backoff setTimeout awaited
    chunkResult,
    pct

envVars == <<hasKey, hasFfmpeg, sourceDuration, typedReplies, request, call>>
storeVars == <<task, answered, lastWrite, failedWrites>>
orchVars == <<chunks, batchStart, completedChunks, results, merged, err>>
chunkVars == <<attempt, geminiFileName, fileState, waitAttempts, parsed,
              uploads, remoteDeleted, timer>>
vars == <<envVars, storeVars, unlinked, materialized, pc, orchVars,
          cpc, chunkVars, chunkResult, pct>>

totalChunks == Len(chunks)
PathOf(i) == chunks[i + 1].path

\* the upload handler has created the task, started runGeminiTranscription
\* on it and answered with the task id
Responded(status, runs) == [at |-> "responded", status |-> status, runs |-> runs]
Accepted == Responded(200, 1)

\* no function is called on its own
NoCall == [fn |-> "none"]

Init ==
    /\ hasKey \in BOOLEAN
    /\ hasFfmpeg \in BOOLEAN
    /\ sourceDuration \in Durations
    /\ typedReplies = TRUE
    /\ request = Accepted
    /\ call = NoCall
    /\ task = [status |-> "processing", error_message |-> NoMessage,
               result |-> Null, language |-> "", speakers_count |-> 0]
    /\ answered = 0
    /\ lastWrite = NoWrite
    /\ failedWrites = {}
    /\ unlinked = [p \in Paths |-> 0]
    /\ materialized = {}
    /\ pc = "start"
    /\ chunks = <<>>
    /\ batchStart = 0
    /\ completedChunks = 0
    /\ results = <<>>
    /\ merged = EmptyMerge
    /\ err = NoMessage
    /\ cpc = [i \in ChunkIds |-> "idle"]
    /\ attempt = [i \in ChunkIds |-> 0]
    /\ geminiFileName = [i \in ChunkIds |-> <<>>]
    /\ fileState = [i \in ChunkIds |-> ""]
    /\ waitAttempts = [i \in ChunkIds |-> 0]
    /\ parsed = [i \in ChunkIds |-> Undefined]
    /\ uploads = [i \in ChunkIds |-> 0]
    /\ remoteDeleted = [i \in ChunkIds |-> <<>>]
    /\ timer = [i \in ChunkIds |-> 0]
    /\ chunkResult = [i \in ChunkIds |-> Undefined]
    /\ pct = [i \in ChunkIds |-> 0]

(***************************************************************************)
(* The task store (directus.ts).                                           *)
(***************************************************************************)
\* the fields of a patch that hold an object (a message, a result); the
\* others hold a string or a number in every patch the code builds
ObjectFields == {"error_message", "result"}

\* a serializer that sends null for undefined
JSONstringify_nulls(data) ==
    [f \in DOMAIN data |->
        IF f \in ObjectFields /\ data[f] = Undefined THEN Null ELSE data[f]]

\* JSON.stringify(data): a field whose value is undefined is left out
JSONstringify(data) ==
    [f \in {g \in DOMAIN data : ~(g \in ObjectFields /\ data[g] = Undefined)}
        |-> data[f]]

\* PATCH /items/transcription_tasks/:id with body, applied by the store
Patched(rec, body) ==
    [f \in DOMAIN rec |-> IF f \in DOMAIN body THEN body[f] ELSE rec[f]]

\* a write that sets status is terminal, any other is a progress write
WriteKind(data) == IF "status" \in DOMAIN data THEN "terminal" ELSE "progress"

\* updateTask(taskId, data), at its response: the store has applied the
\* patch and answers res.ok (ok), or directusRequest throws
updateTask(data, ok) ==
    /\ answered' = answered + 1
    /\ lastWrite' = [body |-> JSONstringify(data), ok |-> ok]
    /\ failedWrites' = IF ok THEN failedWrites
                       ELSE failedWrites \cup {WriteKind(data)}
    /\ task' = IF ok THEN Patched(task, JSONstringify(data)) ELSE task

\* the message of the error directusRequest throws
DirectusError == Text("Directus: <status> <body>")


(***************************************************************************)
(* runGeminiTranscription: the windows.                                    *)
(***************************************************************************)
\* a window of one index too many (j <= i + CONCURRENCY)
WindowIndices_unbounded(i, n) == {j \in i .. (i + CONCURRENCY) : j < n}

\* the indices of the window that starts at i:
\* for (let j = i; j < i + CONCURRENCY && j < totalChunks; j++)
WindowIndices(i, n) == {j \in i .. (i + CONCURRENCY - 1) : j < n}

\* every remaining index dispatched at once
EnterWindow_all(i, n, cpcNow) ==
    /\ batchStart' = i
    /\ IF i < n
       THEN /\ pc' = "await"
            /\ cpc' = [j \in ChunkIds |->
                        IF j \in i .. (n - 1) THEN "pre" ELSE cpcNow[j]]
       ELSE /\ pc' = "assemble"
            /\ cpc' = cpcNow

\* the head of the window loop at index i, of n chunks: processBatch starts
\* the callback of every index of the window, each up to its first await;
\* after the last window the "assembling" write is issued
EnterWindow(i, n, cpcNow) ==
    /\ batchStart' = i
    /\ IF i < n
       THEN /\ pc' = "await"
            /\ cpc' = [j \in ChunkIds |->
                        IF j \in WindowIndices(i, n) THEN "pre" ELSE cpcNow[j]]
       ELSE /\ pc' = "assemble"
            /\ cpc' = cpcNow

\* a catch block that drops the message of the exception
Caught_unknown(message) ==
    /\ pc' = "catch"
    /\ err' = Text("Unknown error")

\* an exception reaches the catch block of runGeminiTranscription, which
\* issues the "failed" write
Caught(message) ==
    /\ pc' = "catch"
    /\ err' = message

\* a window that resolves at its first callback (Promise.race for Promise.all)
WindowResolved_first(cpcNow) ==
    \E j \in WindowIndices(batchStart, totalChunks) : cpcNow[j] = "done"

\* Promise.all resolves when every callback of the window has returned
WindowResolved(cpcNow) ==
    \A j \in WindowIndices(batchStart, totalChunks) : cpcNow[j] = "done"

\* the callback of chunk i returns
CallbackReturns(i) ==
    LET cpcNow == [cpc EXCEPT ![i] = "done"]
    IN  /\ err' = err
        /\ IF pc = "await" /\ WindowResolved(cpcNow)
           THEN EnterWindow(batchStart + CONCURRENCY, totalChunks, cpcNow)
           ELSE /\ cpc' = cpcNow
                /\ UNCHANGED <<pc, batchStart>>

\* the callback of chunk i throws: Promise.all rejects at the first
\* rejection, processBatch throws into the catch block, and the other
\* callbacks of the window run on
CallbackThrows(i, message) ==
    /\ cpc' = [cpc EXCEPT ![i] = "thrown"]
    /\ batchStart' = batchStart
    /\ IF pc = "await" THEN Caught(message) ELSE UNCHANGED <<pc, err>>

(***************************************************************************)
(* runGeminiTranscription: the steps of the orchestrator.                  *)
(***************************************************************************)
\* a run that goes on without the key
Start_ignoresKey ==
    /\ pc = "start"
    /\ pc' = "analyze"
    /\ UNCHANGED <<envVars, storeVars, unlinked, materialized, orchVars,
                   cpc, chunkVars, chunkResult, pct>>

\* const apiKey = process.env.GEMINI_API_KEY; if (!apiKey) ...
Start ==
    /\ pc = "start"
    /\ pc' = IF hasKey THEN "analyze" ELSE "noKey"
    /\ UNCHANGED <<envVars, storeVars, unlinked, materialized, orchVars,
                   cpc, chunkVars, chunkResult, pct>>

\* if (!apiKey) { await updateTask(failed); return; } outside the try block
WriteNoKey ==
    /\ pc = "noKey"
    /\ \E ok \in BOOLEAN :
        /\ updateTask([status |-> "failed",
                       error_message |-> Text("GEMINI_API_KEY is not configured")],
                      ok)
        /\ pc' = IF ok THEN "done" ELSE "rejected"
    /\ UNCHANGED <<envVars, unlinked, materialized, orchVars,
                   cpc, chunkVars, chunkResult, pct>>

WriteAnalyzing ==
    /\ pc = "analyze"
    /\ \E ok \in BOOLEAN :
        /\ updateTask([error_message |-> Text("analyzing")], ok)
        /\ IF ok THEN pc' = "probe" /\ err' = err ELSE Caught(DirectusError)
    /\ UNCHANGED <<envVars, unlinked, materialized, chunks, batchStart,
                   completedChunks, results, merged,
                   cpc, chunkVars, chunkResult, pct>>

\* const durationSec = await getAudioDuration(tempFilePath): never throws,
\* and durationSec is not used
Probe ==
    /\ pc = "probe"
    /\ \E probeOk \in BOOLEAN :
        LET durationSec == getAudioDuration(hasFfmpeg, probeOk, sourceDuration)
        IN  durationSec \in {<<>>, <<sourceDuration>>} /\ pc' = "prepare"
    /\ UNCHANGED <<envVars, storeVars, unlinked, materialized, orchVars,
                   cpc, chunkVars, chunkResult, pct>>

WritePreparing ==
    /\ pc = "prepare"
    /\ \E ok \in BOOLEAN :
        /\ updateTask([error_message |-> Text("preparing")], ok)
        /\ IF ok THEN pc' = "split" /\ err' = err ELSE Caught(DirectusError)
    /\ UNCHANGED <<envVars, unlinked, materialized, chunks, batchStart,
                   completedChunks, results, merged,
                   cpc, chunkVars, chunkResult, pct>>

\* const chunkPaths = await splitAudioIntoChunks(tempFilePath), and on to the
\* first window.  failAt: the ffmpeg run that fails (none when it is not less
\* than the number of chunks); its chunkPath was pushed and its file started
Split ==
    /\ pc = "split"
    /\ \E probeOk \in BOOLEAN, failAt \in 0 .. MaxChunks :
        LET plan == splitAudioIntoChunks(hasFfmpeg, probeOk, sourceDuration)
            cut == plan[1].path # tempFilePath
        IN  IF cut /\ failAt < Len(plan)
            THEN /\ materialized' = {plan[k].path : k \in 1 .. (failAt + 1)}
                 /\ Caught(Text("ffmpeg error"))
                 /\ UNCHANGED <<chunks, batchStart, completedChunks, results, cpc>>
            ELSE /\ materialized' =
                        IF cut THEN {plan[k].path : k \in 1 .. Len(plan)} ELSE {}
                 /\ chunks' = plan
                 /\ completedChunks' = 0
                 /\ results' = [i \in 0 .. (Len(plan) - 1) |-> Undefined]
                 /\ err' = err
                 /\ EnterWindow(0, Len(plan), cpc)
    /\ UNCHANGED <<envVars, storeVars, unlinked, merged,
                   chunkVars, chunkResult, pct>>

\* the source deleted after every merge
DeletesSource_always == TRUE

\* if (totalChunks > 1 || (totalChunks === 1 && chunkPaths[0] !== tempFilePath))
DeletesSource == totalChunks > 1 \/ (totalChunks = 1 /\ PathOf(0) # tempFilePath)

\* the empty check left out
NoSegmentsCollected_never(m) == FALSE

\* if (allSegments.length === 0) throw new Error(...)
NoSegmentsCollected(m) == m.allSegments = <<>>

NoSegmentsError == Text("no segments from any fragment")

\* await updateTask("assembling"), then the merge loop and the empty check
WriteAssembling ==
    /\ pc = "assemble"
    /\ \E ok \in BOOLEAN :
        /\ updateTask([error_message |-> Text("assembling")], ok)
        /\ IF ok
           THEN IF MapThrows(results, totalChunks)
                THEN /\ merged' = merged
                     /\ Caught(MapTypeError)
                ELSE /\ merged' = MergeResults(results, totalChunks)
                     /\ IF NoSegmentsCollected(merged')
                        THEN Caught(NoSegmentsError)
                        ELSE /\ pc' = IF DeletesSource THEN "unlinkSource"
                                      ELSE "complete"
                             /\ err' = err
           ELSE /\ merged' = merged
                /\ Caught(DirectusError)
    /\ UNCHANGED <<envVars, unlinked, materialized, chunks, batchStart,
                   completedChunks, results, cpc, chunkVars, chunkResult, pct>>

\* try { await unlink(tempFilePath); } catch {}
UnlinkSource ==
    /\ pc = "unlinkSource"
    /\ unlinked' = [unlinked EXCEPT ![tempFilePath] = @ + 1]
    /\ pc' = "complete"
    /\ UNCHANGED <<envVars, storeVars, materialized, orchVars,
                   cpc, chunkVars, chunkResult, pct>>

\* the patch of the terminal write of a completed run (processed_at, the
\* elapsed wall-clock time, is left out)
CompletedPatch ==
    [status |-> "completed",
     error_message |-> Undefined,
     result |-> ResultOf(merged),
     language |-> merged.detectedLanguage,
     speakers_count |-> IF merged.speakersCount # 0 THEN merged.speakersCount ELSE 1]

WriteCompleted ==
    /\ pc = "complete"
    /\ \E ok \in BOOLEAN :
        /\ updateTask(CompletedPatch, ok)
        /\ IF ok THEN pc' = "done" /\ err' = err ELSE Caught(DirectusError)
    /\ UNCHANGED <<envVars, unlinked, materialized, chunks, batchStart,
                   completedChunks, results, merged,
                   cpc, chunkVars, chunkResult, pct>>

\* a catch block that only cleans up
WriteFailed_skipped ==
    /\ pc = "catch"
    /\ pc' = "unlinkAfterFailure"
    /\ UNCHANGED <<envVars, storeVars, unlinked, materialized, orchVars,
                   cpc, chunkVars, chunkResult, pct>>

\* catch (err) { await updateTask(failed, message); ... }: a throw of this
\* write leaves the function as a rejection
WriteFailed ==
    /\ pc = "catch"
    /\ \E ok \in BOOLEAN :
        /\ updateTask([status |-> "failed", error_message |-> err], ok)
        /\ pc' = IF ok THEN "unlinkAfterFailure" ELSE "rejected"
    /\ UNCHANGED <<envVars, unlinked, materialized, orchVars,
                   cpc, chunkVars, chunkResult, pct>>

\* ... try { await unlink(tempFilePath); } catch {} }
UnlinkAfterFailure ==
    /\ pc = "unlinkAfterFailure"
    /\ unlinked' = [unlinked EXCEPT ![tempFilePath] = @ + 1]
    /\ pc' = "done"
    /\ UNCHANGED <<envVars, storeVars, materialized, orchVars,
                   cpc, chunkVars, chunkResult, pct>>


(***************************************************************************)
(* The remote file state.  A script is what the service answers to the     *)
(* queries of one attempt: "PROCESSING" to the first `processing` queries  *)
(* (query 0 is the one before the loop), `then` to every later one, where  *)
(* "THROW" is a files.get that throws.                                     *)
(***************************************************************************)
PollScripts ==
    [processing : {0, POLL_CEILING, POLL_CEILING + 1},
     then : {"ACTIVE", "FAILED", "THROW"}]

Response(script, query) ==
    IF query < script.processing THEN "PROCESSING" ELSE script.then

\* a loop that polls once more (waitAttempts <= 60)
RECURSIVE WaitLoop_offByOne(_, _, _)
WaitLoop_offByOne(script, state, w) ==
    IF state = "PROCESSING" /\ w <= POLL_CEILING
    THEN LET next == Response(script, w + 1)
         IN  IF next = "THROW"
             THEN [threw |-> TRUE, state |-> state, waitAttempts |-> w]
             ELSE WaitLoop_offByOne(script, next, w + 1)
    ELSE [threw |-> FALSE, state |-> state, waitAttempts |-> w]

\* while (currentFile.state === "PROCESSING" && waitAttempts < 60)
\*   { sleep; currentFile = await ai.files.get(...); waitAttempts++; }
RECURSIVE WaitLoop(_, _, _)
WaitLoop(script, state, w) ==
    IF state = "PROCESSING" /\ w < POLL_CEILING
    THEN LET next == Response(script, w + 1)
         IN  IF next = "THROW"
             THEN [threw |-> TRUE, state |-> state, waitAttempts |-> w]
             ELSE WaitLoop(script, next, w + 1)
    ELSE [threw |-> FALSE, state |-> state, waitAttempts |-> w]

\* let currentFile = await ai.files.get(...); let waitAttempts = 0; while ...
AwaitProcessing(script) ==
    LET first == Response(script, 0)
    IN  IF first = "THROW"
        THEN [threw |-> TRUE, state |-> "", waitAttempts |-> 0]
        ELSE WaitLoop(script, first, 0)

(***************************************************************************)
(* processBatch: the callback of chunk i and its runSingleChunk.           *)
(***************************************************************************)
\* the calls runSingleChunk awaits
InRunSingleChunk ==
    {"upload", "wait", "generate", "delete", "unlinkOk",
     "catchDelete", "catchUnlink", "sleep"}

\* the next value of the variables of runSingleChunk for chunk i
Locals(i, a, g, fs, w, p, u) ==
    /\ uploads' = [uploads EXCEPT ![i] = u]
    /\ attempt' = [attempt EXCEPT ![i] = a]
    /\ geminiFileName' = [geminiFileName EXCEPT ![i] = g]
    /\ fileState' = [fileState EXCEPT ![i] = fs]
    /\ waitAttempts' = [waitAttempts EXCEPT ![i] = w]
    /\ parsed' = [parsed EXCEPT ![i] = p]

\* the remote delete issued in the attempt in progress of chunk i, and the
\* backoff timer it awaits
Pending(i, d, ms) ==
    /\ remoteDeleted' = [remoteDeleted EXCEPT ![i] = d]
    /\ timer' = [timer EXCEPT ![i] = ms]

\* a delay that does not grow
Backoff_constant(k) == BACKOFF_BASE_MS

\* Math.pow(2, attempt) * 2000
Backoff(k) == (2 ^ k) * BACKOFF_BASE_MS

\* giving up one attempt early (attempt === retries - 1)
AfterCatchDelete_early(i) ==
    IF attempt[i] + 1 >= RETRIES THEN "catchUnlink" ELSE "sleep"

\* in the catch block, after the delete of the remote file (if any):
\* if (attempt === retries) { unlink; return null; } else sleep
AfterCatchDelete(i) == IF attempt[i] = RETRIES THEN "catchUnlink" ELSE "sleep"

\* the timer awaited at position c of the catch block
TimerAt(i, c) == IF c = "sleep" THEN Backoff(attempt[i]) ELSE 0

\* a catch block that leaves the remote file alone
CatchFrom_noDelete(i, g, fs, w) ==
    /\ cpc' = [cpc EXCEPT ![i] = AfterCatchDelete(i)]
    /\ Locals(i, attempt[i], g, fs, w, Undefined,
              uploads[i] + (IF cpc[i] = "upload" THEN 1 ELSE 0))
    /\ Pending(i, remoteDeleted[i], TimerAt(i, AfterCatchDelete(i)))

\* the try block of attempt[i] throws with geminiFileName = g, the remote
\* state last seen being fs after w polls:
\* if (geminiFileName) { try { await ai.files.delete(...) } catch {} }
CatchFrom(i, g, fs, w) ==
    LET c == IF g # <<>> THEN "catchDelete" ELSE AfterCatchDelete(i)
    IN  /\ cpc' = [cpc EXCEPT ![i] = c]
        /\ Locals(i, attempt[i], g, fs, w, Undefined,
                  uploads[i] + (IF cpc[i] = "upload" THEN 1 ELSE 0))
        /\ Pending(i, IF g # <<>> THEN g ELSE remoteDeleted[i], TimerAt(i, c))

\* a throw outside the wait for the remote file
Catch(i, g) == CatchFrom(i, g, "", 0)

\* await updateTask("part i+1 of n..."), then runSingleChunk is called and
\* issues its first upload
PreWrite(i) ==
    /\ cpc[i] = "pre"
    /\ \E ok \in BOOLEAN :
        /\ updateTask([error_message |->
                        IF totalChunks = 1 THEN Text("sending")
                        ELSE Msg("part", i + 1, totalChunks, 0)], ok)
        /\ IF ok
           THEN /\ cpc' = [cpc EXCEPT ![i] = "upload"]
                /\ UNCHANGED <<pc, batchStart, err>>
           ELSE CallbackThrows(i, DirectusError)
    /\ Locals(i, 0, <<>>, "", 0, Undefined, 0)
    /\ Pending(i, <<>>, 0)
    /\ UNCHANGED <<envVars, unlinked, materialized, chunks, completedChunks,
                   results, merged, chunkResult, pct>>

\* const uploadResult = await ai.files.upload(...);
\* geminiFileName = uploadResult.name
Upload(i) ==
    /\ cpc[i] = "upload"
    /\ \E ok \in BOOLEAN :
        IF ok
        THEN /\ cpc' = [cpc EXCEPT ![i] = "wait"]
             /\ Locals(i, attempt[i], <<attempt[i]>>, "", 0, Undefined,
                       uploads[i] + 1)
             /\ Pending(i, <<>>, 0)
        ELSE Catch(i, geminiFileName[i])
    /\ UNCHANGED <<envVars, storeVars, unlinked, materialized, pc, orchVars,
                   chunkResult, pct>>

\* the wait for the remote file, and if (currentFile.state !== "ACTIVE") throw
Wait(i) ==
    /\ cpc[i] = "wait"
    /\ \E script \in PollScripts :
        LET r == AwaitProcessing(script)
        IN  IF ~r.threw /\ r.state = "ACTIVE"
            THEN /\ cpc' = [cpc EXCEPT ![i] = "generate"]
                 /\ Locals(i, attempt[i], geminiFileName[i],
                           r.state, r.waitAttempts, Undefined, uploads[i])
                 /\ Pending(i, <<>>, 0)
            ELSE CatchFrom(i, geminiFileName[i], r.state, r.waitAttempts)
    /\ UNCHANGED <<envVars, storeVars, unlinked, materialized, pc, orchVars,
                   chunkResult, pct>>

\* result.text?.trim() ?? "": what the service may answer for chunk i
Replies(i) ==
    IF typedReplies THEN RawTexts(i) ELSE RawTexts(i) \cup UntypedTexts

\* const result = await ai.models.generateContent(...);
\* const parsed = parseGeminiJson(result.text?.trim() ?? "")
\* (currentFile and waitAttempts are not read after the ACTIVE check)
Generate(i) ==
    /\ cpc[i] = "generate"
    /\ \/ \E rawText \in Replies(i) :
            /\ cpc' = [cpc EXCEPT ![i] = "delete"]
            /\ Locals(i, attempt[i], geminiFileName[i], "", 0,
                      parseGeminiJson(rawText), uploads[i])
            /\ Pending(i, geminiFileName[i], 0)
       \/ Catch(i, geminiFileName[i])
    /\ UNCHANGED <<envVars, storeVars, unlinked, materialized, pc, orchVars,
                   chunkResult, pct>>

\* a reply without segments ends the call at once (return null for throw)
DeleteRemote_givesUp(i) ==
    /\ cpc[i] = "delete"
    /\ cpc' = [cpc EXCEPT ![i] = IF HasSegments(parsed[i]) THEN "unlinkOk"
                                  ELSE "catchUnlink"]
    /\ Locals(i, attempt[i], <<>>, "", 0, parsed[i], uploads[i])
    /\ Pending(i, remoteDeleted[i], 0)
    /\ UNCHANGED <<envVars, storeVars, unlinked, materialized, pc, orchVars,
                   chunkResult, pct>>

\* try { await ai.files.delete(...) } catch {}; geminiFileName = null;
\* if (parsed?.segments?.length) { unlink ... } else throw
DeleteRemote(i) ==
    /\ cpc[i] = "delete"
    /\ \E ok \in BOOLEAN :
        IF HasSegments(parsed[i])
        THEN /\ cpc' = [cpc EXCEPT ![i] = "unlinkOk"]
             /\ Locals(i, attempt[i], <<>>, "", 0, parsed[i], uploads[i])
             /\ Pending(i, remoteDeleted[i], 0)
        ELSE Catch(i, <<>>)
    /\ UNCHANGED <<envVars, storeVars, unlinked, materialized, pc, orchVars,
                   chunkResult, pct>>

\* results.push(chunkResult) for results[i] = chunkResult
Return_inCompletionOrder(i, value) ==
    /\ chunkResult' = [chunkResult EXCEPT ![i] = value]
    /\ results' = [results EXCEPT ![completedChunks] = value]
    /\ completedChunks' = completedChunks + 1
    /\ pct' = [pct EXCEPT ![i] =
                15 + RoundDiv((completedChunks + 1) * 75, totalChunks)]
    /\ cpc' = [cpc EXCEPT ![i] = "post"]
    /\ Locals(i, 0, <<>>, "", 0, Undefined, 0)
    /\ Pending(i, <<>>, 0)

\* a counter written from a value read when the window started
Return_lostUpdate(i, value) ==
    /\ chunkResult' = [chunkResult EXCEPT ![i] = value]
    /\ results' = [results EXCEPT ![i] = value]
    /\ completedChunks' = batchStart + 1
    /\ pct' = [pct EXCEPT ![i] =
                15 + RoundDiv((batchStart + 1) * 75, totalChunks)]
    /\ cpc' = [cpc EXCEPT ![i] = "post"]
    /\ Locals(i, 0, <<>>, "", 0, Undefined, 0)
    /\ Pending(i, <<>>, 0)

\* runSingleChunk returns value to the callback of chunk i:
\* results[i] = chunkResult; completedChunks++; pct = 15 + Math.round(...);
\* and the progress write is issued
Return(i, value) ==
    /\ chunkResult' = [chunkResult EXCEPT ![i] = value]
    /\ results' = [results EXCEPT ![i] = value]
    /\ completedChunks' = completedChunks + 1
    /\ pct' = [pct EXCEPT ![i] =
                15 + RoundDiv((completedChunks + 1) * 75, totalChunks)]
    /\ cpc' = [cpc EXCEPT ![i] = "post"]
    /\ Locals(i, 0, <<>>, "", 0, Undefined, 0)
    /\ Pending(i, <<>>, 0)

\* try { await unlink(filePath); } catch {}; return parsed
UnlinkOk(i) ==
    /\ cpc[i] = "unlinkOk"
    /\ unlinked' = [unlinked EXCEPT ![PathOf(i)] = @ + 1]
    /\ Return(i, parsed[i])
    /\ UNCHANGED <<envVars, storeVars, materialized, pc, chunks, batchStart,
                   merged, err>>

\* catch: try { await ai.files.delete({ name: geminiFileName }) } catch {}
CatchDelete(i) ==
    /\ cpc[i] = "catchDelete"
    /\ \E ok \in BOOLEAN :
        cpc' = [cpc EXCEPT ![i] = AfterCatchDelete(i)]
    /\ Locals(i, attempt[i], geminiFileName[i], "", 0, Undefined, uploads[i])
    /\ Pending(i, remoteDeleted[i], TimerAt(i, AfterCatchDelete(i)))
    /\ UNCHANGED <<envVars, storeVars, unlinked, materialized, pc, orchVars,
                   chunkResult, pct>>

\* the last attempt's exception thrown on to the callback (throw err for
\* return null)
CatchUnlink_rethrows(i) ==
    /\ cpc[i] = "catchUnlink"
    /\ unlinked' = [unlinked EXCEPT ![PathOf(i)] = @ + 1]
    /\ CallbackThrows(i, Text("Empty or invalid segments in response"))
    /\ Locals(i, 0, <<>>, "", 0, Undefined, 0)
    /\ Pending(i, <<>>, 0)
    /\ UNCHANGED <<envVars, storeVars, materialized, chunks, completedChunks,
                   results, merged, chunkResult, pct>>

\* catch, last attempt: try { await unlink(filePath); } catch {}; return null
CatchUnlink(i) ==
    /\ cpc[i] = "catchUnlink"
    /\ unlinked' = [unlinked EXCEPT ![PathOf(i)] = @ + 1]
    /\ Return(i, Null)
    /\ UNCHANGED <<envVars, storeVars, materialized, pc, chunks, batchStart,
                   merged, err>>

\* the local file unlinked after every failed attempt
Sleep_unlinks(i) ==
    /\ cpc[i] = "sleep"
    /\ cpc' = [cpc EXCEPT ![i] = "upload"]
    /\ Locals(i, attempt[i] + 1, geminiFileName[i], "", 0, Undefined,
              uploads[i])
    /\ Pending(i, <<>>, 0)
    /\ unlinked' = [unlinked EXCEPT ![PathOf(i)] = @ + 1]
    /\ UNCHANGED <<envVars, storeVars, materialized, pc, orchVars,
                   chunkResult, pct>>

\* await new Promise(r => setTimeout(r, Math.pow(2, attempt) * 2000)), then
\* attempt++ and the next upload is issued
Sleep(i) ==
    /\ cpc[i] = "sleep"
    /\ cpc' = [cpc EXCEPT ![i] = "upload"]
    /\ Locals(i, attempt[i] + 1, geminiFileName[i], "", 0, Undefined,
              uploads[i])
    /\ Pending(i, <<>>, 0)
    /\ UNCHANGED <<envVars, storeVars, unlinked, materialized, pc, orchVars,
                   chunkResult, pct>>

\* a completion write that sets the status again
PostWrite_withStatus(i) ==
    /\ cpc[i] = "post"
    /\ \E ok \in BOOLEAN :
        /\ updateTask([status |-> "processing",
                       error_message |->
                        Msg("part done", i + 1, totalChunks, pct[i])], ok)
        /\ IF ok THEN CallbackReturns(i) ELSE CallbackThrows(i, DirectusError)
    /\ UNCHANGED <<envVars, unlinked, materialized, chunks, completedChunks,
                   results, merged, chunkVars, chunkResult, pct>>

\* await updateTask("part i+1 of n... (pct%)"), the end of the callback
PostWrite(i) ==
    /\ cpc[i] = "post"
    /\ \E ok \in BOOLEAN :
        /\ updateTask([error_message |->
                        Msg("part done", i + 1, totalChunks, pct[i])], ok)
        /\ IF ok THEN CallbackReturns(i) ELSE CallbackThrows(i, DirectusError)
    /\ UNCHANGED <<envVars, unlinked, materialized, chunks, completedChunks,
                   results, merged, chunkVars, chunkResult, pct>>

runSingleChunk(i) ==
    \/ Upload(i)
    \/ Wait(i)
    \/ Generate(i)
    \/ DeleteRemote(i)
    \/ UnlinkOk(i)
    \/ CatchDelete(i)
    \/ CatchUnlink(i)
    \/ Sleep(i)

processBatch ==
    \E i \in ChunkIds : PreWrite(i) \/ runSingleChunk(i) \/ PostWrite(i)

runGeminiTranscription ==
    \/ Start
    \/ WriteNoKey
    \/ WriteAnalyzing
    \/ Probe
    \/ WritePreparing
    \/ Split
    \/ processBatch
    \/ WriteAssembling
    \/ UnlinkSource
    \/ WriteCompleted
    \/ WriteFailed
    \/ UnlinkAfterFailure

Next == runGeminiTranscription

Spec == Init /\ [][Next]_vars

\* every awaited call returns: a step that can be taken is taken
FairSpec == Spec /\ WF_vars(Next)

(***************************************************************************)
(* The splitter on its own: runGeminiTranscription at its call of          *)
(* splitAudioIntoChunks, for every source of 0 to MaxChunks chunk lengths  *)
(* of whole seconds (0: ffprobe reports no positive duration).             *)
(***************************************************************************)
SplitDurations == 0 .. (CHUNK_DURATION_SEC * MaxChunks)

SplitInit ==
    /\ hasKey = TRUE
    /\ hasFfmpeg \in BOOLEAN
    /\ sourceDuration \in SplitDurations
    /\ typedReplies = TRUE
    /\ request = Accepted
    /\ call = NoCall
    /\ task = [status |-> "processing", error_message |-> Text("preparing"),
               result |-> Null, language |-> "", speakers_count |-> 0]
    /\ answered = 2
    /\ lastWrite = [body |-> [error_message |-> Text("preparing")], ok |-> TRUE]
    /\ failedWrites = {}
    /\ unlinked = [p \in Paths |-> 0]
    /\ materialized = {}
    /\ pc = "split"
    /\ chunks = <<>>
    /\ batchStart = 0
    /\ completedChunks = 0
    /\ results = <<>>
    /\ merged = EmptyMerge
    /\ err = NoMessage
    /\ cpc = [i \in ChunkIds |-> "idle"]
    /\ attempt = [i \in ChunkIds |-> 0]
    /\ geminiFileName = [i \in ChunkIds |-> <<>>]
    /\ fileState = [i \in ChunkIds |-> ""]
    /\ waitAttempts = [i \in ChunkIds |-> 0]
    /\ parsed = [i \in ChunkIds |-> Undefined]
    /\ uploads = [i \in ChunkIds |-> 0]
    /\ remoteDeleted = [i \in ChunkIds |-> <<>>]
    /\ timer = [i \in ChunkIds |-> 0]
    /\ chunkResult = [i \in ChunkIds |-> Undefined]
    /\ pct = [i \in ChunkIds |-> 0]

SplitSpec == SplitInit /\ [][Split]_vars

(***************************************************************************)
(* The pipeline with a service that may answer JSON in which a field has   *)
(* another type than the response schema declares.                         *)
(***************************************************************************)
UntypedInit ==
    /\ hasKey \in BOOLEAN
    /\ hasFfmpeg \in BOOLEAN
    /\ sourceDuration \in Durations
    /\ typedReplies = FALSE
    /\ request = Accepted
    /\ call = NoCall
    /\ task = [status |-> "processing", error_message |-> NoMessage,
               result |-> Null, language |-> "", speakers_count |-> 0]
    /\ answered = 0
    /\ lastWrite = NoWrite
    /\ failedWrites = {}
    /\ unlinked = [p \in Paths |-> 0]
    /\ materialized = {}
    /\ pc = "start"
    /\ chunks = <<>>
    /\ batchStart = 0
    /\ completedChunks = 0
    /\ results = <<>>
    /\ merged = EmptyMerge
    /\ err = NoMessage
    /\ cpc = [i \in ChunkIds |-> "idle"]
    /\ attempt = [i \in ChunkIds |-> 0]
    /\ geminiFileName = [i \in ChunkIds |-> <<>>]
    /\ fileState = [i \in ChunkIds |-> ""]
    /\ waitAttempts = [i \in ChunkIds |-> 0]
    /\ parsed = [i \in ChunkIds |-> Undefined]
    /\ uploads = [i \in ChunkIds |-> 0]
    /\ remoteDeleted = [i \in ChunkIds |-> <<>>]
    /\ timer = [i \in ChunkIds |-> 0]
    /\ chunkResult = [i \in ChunkIds |-> Undefined]
    /\ pct = [i \in ChunkIds |-> 0]

UntypedSpec == UntypedInit /\ [][Next]_vars

(***************************************************************************)
(* The pure functions called on their own: no run of the pipeline is in    *)
(* progress, and call holds the arguments and then the values returned.    *)
(***************************************************************************)
\* the field "07" of a timecode
TwoDigits(n) == <<n \div 10, n % 10>>

\* valid HH:MM:SS timecodes, the ends of every field's range among them
TimeStrs ==
    {<<TwoDigits(h), TwoDigits(m), TwoDigits(s)>> :
        h \in {0, 1, 23, 99}, m \in {0, 59}, s \in {0, 1, 59}}

\* offsets in seconds: none, within a minute, whole chunks, an hour, a day
Offsets == {0, 1, 59, 60, CHUNK_DURATION_SEC, 2 * CHUNK_DURATION_SEC, 3599, 86400}

\* the store holds no record of the task
NoTask ==
    [status |-> "absent", error_message |-> NoMessage,
     result |-> Null, language |-> "", speakers_count |-> 0]

\* the state of every variable of the pipeline when no run was started
NoRun ==
    /\ answered = 0
    /\ lastWrite = NoWrite
    /\ failedWrites = {}
    /\ unlinked = [p \in Paths |-> 0]
    /\ materialized = {}
    /\ pc = "idle"
    /\ chunks = <<>>
    /\ batchStart = 0
    /\ completedChunks = 0
    /\ results = <<>>
    /\ merged = EmptyMerge
    /\ err = NoMessage
    /\ cpc = [i \in ChunkIds |-> "idle"]
    /\ attempt = [i \in ChunkIds |-> 0]
    /\ geminiFileName = [i \in ChunkIds |-> <<>>]
    /\ fileState = [i \in ChunkIds |-> ""]
    /\ waitAttempts = [i \in ChunkIds |-> 0]
    /\ parsed = [i \in ChunkIds |-> Undefined]
    /\ uploads = [i \in ChunkIds |-> 0]
    /\ remoteDeleted = [i \in ChunkIds |-> <<>>]
    /\ timer = [i \in ChunkIds |-> 0]
    /\ chunkResult = [i \in ChunkIds |-> Undefined]
    /\ pct = [i \in ChunkIds |-> 0]

\* a call of addOffsetToTimestamp on timeStr with a, then on what it
\* returned with b, and calls on timeStr with a + b and with 0
OffsetCalls ==
    {[fn |-> "addOffsetToTimestamp", returned |-> FALSE,
      timeStr |-> t, a |-> a, b |-> b] :
        t \in TimeStrs, a \in Offsets, b \in Offsets}

\* a call of parseGeminiJson on a reply text
ParseCalls ==
    {[fn |-> "parseGeminiJson", returned |-> FALSE, rawText |-> r] :
        r \in UNION {RawTexts(i) : i \in ChunkIds} \cup UntypedTexts}

\* typeof v, for a value other than null and undefined: a string is the
\* record of its text, a number the record of its value
TypeOf(v) ==
    IF "string" \in DOMAIN v THEN "string"
    ELSE IF "number" \in DOMAIN v THEN "number"
    ELSE "object"

\* Array.isArray(v.segments)
HasArraySegments(v) == "segments" \in DOMAIN v /\ IsArray(v.segments)

\* { segments: [], summary: "", _truncated: true }
TruncatedResult == [segments |-> <<>>, summary |-> <<>>, _truncated |-> TRUE]

\* a string result that does not parse returned as it came
normalizeTaskResult_passThrough(data) ==
    LET result == data.result
    IN  IF result \in {Null, Undefined} THEN data
        ELSE IF TypeOf(result) = "object" /\ HasArraySegments(result) THEN data
        ELSE IF TypeOf(result) = "string"
        THEN LET parsedResult == JSONparse(result.string)
             IN  IF /\ ~parsedResult.threw
                    /\ parsedResult.value # Null
                    /\ TypeOf(parsedResult.value) = "object"
                    /\ HasArraySegments(parsedResult.value)
                 THEN [data EXCEPT !.result = parsedResult.value]
                 ELSE data
        ELSE data

\* app/api/tasks/[id]/route.ts: normalizeTaskResult(data)
normalizeTaskResult(data) ==
    LET result == data.result
    IN  IF result \in {Null, Undefined} THEN data
        ELSE IF TypeOf(result) = "object" /\ HasArraySegments(result) THEN data
        ELSE IF TypeOf(result) = "string"
        THEN LET parsedResult == JSONparse(result.string)
             IN  IF /\ ~parsedResult.threw
                    /\ parsedResult.value # Null
                    /\ TypeOf(parsedResult.value) = "object"
                    /\ HasArraySegments(parsedResult.value)
                 THEN [data EXCEPT !.result = parsedResult.value]
                 ELSE [data EXCEPT !.result = TruncatedResult]
        ELSE data

\* the result field of a task record read from the store: absent, null, an
\* object, a number, or a string holding any of the reply texts
StoredResults ==
    {Null, Undefined, [number |-> 5],
     GoodReply(0), EmptySegmentsReply, NoSegmentsReply, StringSegmentsReply}
        \cup {[string |-> r] :
                r \in UNION {RawTexts(i) : i \in ChunkIds} \cup UntypedTexts}

\* a call of normalizeTaskResult on a task record
NormalizeCalls ==
    {[fn |-> "normalizeTaskResult", returned |-> FALSE,
      data |-> [status |-> s, result |-> r]] :
        s \in {"processing", "completed", "failed"}, r \in StoredResults}

\* the chunk-local start seconds of the segments of one reply: in order
\* and within the chunk (the ends of the range among them), out of order,
\* and past the chunk's end
StartLists == <<<<5>>, <<5, 245>>, <<0, CHUNK_DURATION_SEC>>, <<245, 5>>,
               <<CHUNK_DURATION_SEC + 100>>>>

\* the reply for chunk i whose segments start as StartLists[c] says; the
\* speaker labels are the same in every chunk
ReplyWith(i, c) ==
    [segments |->
        [k \in 1 .. Len(StartLists[c]) |->
            [start |-> Timecode(StartLists[c][k]),
             end |-> Timecode(StartLists[c][k] + 1),
             speaker |-> IF k = 1 THEN "Speaker A" ELSE "Speaker B",
             text |-> <<i, k>>]],
     summary |-> <<i>>,
     detected_language |-> "en",
     speakers_count |-> 2]

\* the results array after the windows: for each of n chunks null or a reply
ResultArrays ==
    UNION {{[i \in 0 .. (n - 1) |->
                IF c[i] = 0 THEN Null ELSE ReplyWith(i, c[i])] :
              c \in [0 .. (n - 1) -> 0 .. Len(StartLists)]} :
           n \in 1 .. MaxChunks}

\* a run of the merge loop on a results array
MergeCalls ==
    {[fn |-> "merge", returned |-> FALSE, res |-> r] : r \in ResultArrays}

CallInit ==
    /\ hasKey = TRUE
    /\ hasFfmpeg = TRUE
    /\ sourceDuration = CHUNK_DURATION_SEC
    /\ typedReplies = TRUE
    /\ request = Responded(0, 0)
    /\ call \in OffsetCalls \cup ParseCalls \cup NormalizeCalls \cup MergeCalls
    /\ task = NoTask
    /\ NoRun

CallAddOffset ==
    /\ call.fn = "addOffsetToTimestamp"
    /\ ~call.returned
    /\ call' = [fn |-> call.fn, returned |-> TRUE,
                timeStr |-> call.timeStr, a |-> call.a, b |-> call.b,
                twice |-> addOffsetToTimestamp(
                            addOffsetToTimestamp(call.timeStr, call.a), call.b),
                once |-> addOffsetToTimestamp(call.timeStr, call.a + call.b),
                zero |-> addOffsetToTimestamp(call.timeStr, 0)]
    /\ UNCHANGED <<hasKey, hasFfmpeg, sourceDuration, typedReplies, request,
                   storeVars,
                   unlinked, materialized, pc, orchVars, cpc, chunkVars,
                   chunkResult, pct>>

CallParse ==
    /\ call.fn = "parseGeminiJson"
    /\ ~call.returned
    /\ call' = [fn |-> call.fn, returned |-> TRUE, rawText |-> call.rawText,
                trace |-> ParseTrace(call.rawText),
                value |-> parseGeminiJson(call.rawText)]
    /\ UNCHANGED <<hasKey, hasFfmpeg, sourceDuration, typedReplies, request,
                   storeVars, unlinked, materialized, pc, orchVars, cpc,
                   chunkVars, chunkResult, pct>>

CallNormalize ==
    /\ call.fn = "normalizeTaskResult"
    /\ ~call.returned
    /\ call' = [fn |-> call.fn, returned |-> TRUE, data |-> call.data,
                safe |-> normalizeTaskResult(call.data)]
    /\ UNCHANGED <<hasKey, hasFfmpeg, sourceDuration, typedReplies, request,
                   storeVars, unlinked, materialized, pc, orchVars, cpc,
                   chunkVars, chunkResult, pct>>

\* the merge loop of runGeminiTranscription on call.res
CallMerge ==
    /\ call.fn = "merge"
    /\ ~call.returned
    /\ call' = [fn |-> call.fn, returned |-> TRUE, res |-> call.res,
                allSegments |->
                    MergeResults(call.res,
                                 Cardinality(DOMAIN call.res)).allSegments]
    /\ UNCHANGED <<hasKey, hasFfmpeg, sourceDuration, typedReplies, request,
                   storeVars, unlinked, materialized, pc, orchVars, cpc,
                   chunkVars, chunkResult, pct>>

CallNext == CallAddOffset \/ CallParse \/ CallNormalize \/ CallMerge

CallSpec == CallInit /\ [][CallNext]_vars


(***************************************************************************)
(* The upload handler (app/api/upload/route.ts, POST) followed by the run  *)
(* it starts.  Sources of at most two chunks are uploaded.                 *)
(***************************************************************************)
\* the handler at one of its awaits, no response sent and no run started
Handling(at) == [at |-> at, status |-> 0, runs |-> 0]

UploadDurations == {CHUNK_DURATION_SEC, CHUNK_DURATION_SEC + 1}

UploadInit ==
    /\ hasKey \in BOOLEAN
    /\ hasFfmpeg \in BOOLEAN
    /\ sourceDuration \in UploadDurations
    /\ typedReplies = TRUE
    /\ request = Handling("formData")
    /\ call = NoCall
    /\ task = NoTask
    /\ NoRun

\* the checks of the environment and of the file, and the write of the
\* temporary file: 503, 400 or 500 when one fails
Receive ==
    /\ request = Handling("formData")
    /\ \E outcome \in {503, 400, 500, 0} :
        request' = IF outcome = 0 THEN Handling("createTask")
                   ELSE Responded(outcome, 0)
    /\ UNCHANGED <<hasKey, hasFfmpeg, sourceDuration, typedReplies, call,
                   storeVars, unlinked, materialized, pc, orchVars, cpc,
                   chunkVars, chunkResult, pct>>

\* directus.ts: createTask(data), at its response: the record the store
\* holds from then on
Created(data) ==
    [status |-> data.status, error_message |-> NoMessage,
     result |-> Null, language |-> "", speakers_count |-> 0]

\* the pipeline started without waiting for createTask
CreateTask_unawaited ==
    /\ request = Handling("createTask")
    /\ \E ok \in BOOLEAN :
        /\ task' = IF ok THEN Created([status |-> "processing"]) ELSE task
        /\ pc' = "start"
        /\ request' = IF ok THEN Accepted ELSE Responded(500, 1)
    /\ UNCHANGED <<hasKey, hasFfmpeg, sourceDuration, typedReplies, call,
                   answered, lastWrite, failedWrites, unlinked, materialized,
                   orchVars, cpc, chunkVars, chunkResult, pct>>

\* const { data: task } = await createTask({..., status: "processing"});
\* runGeminiTranscription(task.id, ...).catch(...);
\* return NextResponse.json({ task_id: task.id })
\* and, when createTask throws, the catch block: 500
CreateTask ==
    /\ request = Handling("createTask")
    /\ \E ok \in BOOLEAN :
        IF ok
        THEN /\ task' = Created([status |-> "processing"])
             /\ pc' = "start"
             /\ request' = Accepted
        ELSE /\ request' = Responded(500, 0)
             /\ UNCHANGED <<task, pc>>
    /\ UNCHANGED <<hasKey, hasFfmpeg, sourceDuration, typedReplies, call,
                   answered, lastWrite, failedWrites, unlinked, materialized,
                   orchVars, cpc, chunkVars, chunkResult, pct>>

POST == Receive \/ CreateTask

UploadNext == POST \/ runGeminiTranscription

UploadSpec == UploadInit /\ [][UploadNext]_vars


(***************************************************************************)
(* Properties.                                                             *)
(***************************************************************************)
\* the chunks whose runSingleChunk was called and has not returned
InFlight == {i \in ChunkIds : cpc[i] \in InRunSingleChunk}

\* the chunks whose runSingleChunk has returned
Returned == {i \in ChunkIds : chunkResult[i] # Undefined}

\* the chunks that returned a result, and those that exhausted their retries
Survivors == {i \in Returned : chunkResult[i] # Null}
Exhausted == {i \in Returned : chunkResult[i] = Null}

AllReturned == totalChunks > 0 /\ Returned = 0 .. (totalChunks - 1)

\* runGeminiTranscription has returned or thrown
RunEnded == pc \in {"done", "rejected"}

WindowOf(i) == i \div CONCURRENCY

\* the merge of a strictly sequential run: the segments of each chunk's
\* returned result, offset by the chunk's start, in ascending chunk index
RECURSIVE SequentialSegments(_, _)
SequentialSegments(i, n) ==
    IF i >= n THEN <<>>
    ELSE (IF HasSegments(chunkResult[i])
          THEN Adjusted(chunkResult[i], i * CHUNK_DURATION_SEC)
          ELSE <<>>) \o SequentialSegments(i + 1, n)

\* C1: at most CONCURRENCY chunks are inside runSingleChunk at the same
\* time, in every reachable state
C1_ConcurrencyBound == Cardinality(InFlight) <= CONCURRENCY

C1_Witness == Cardinality(InFlight) = CONCURRENCY /\ totalChunks > CONCURRENCY

\* C2: a chunk of a later window has its callback started only when every
\* chunk of every earlier window has returned from runSingleChunk, had its
\* result stored and counted, and finished its callback
C2_WindowedDispatch ==
    \A i, j \in ChunkIds :
        (WindowOf(i) < WindowOf(j) /\ cpc[j] # "idle")
            => /\ cpc[i] = "done"
               /\ i \in Returned
               /\ results[i] = chunkResult[i]
               /\ completedChunks >= CONCURRENCY * WindowOf(j)

C2_Witness ==
    \E j \in ChunkIds : WindowOf(j) > 0 /\ cpc[j] \in InRunSingleChunk

\* C3: the segments of the terminal write are those of the chunks' returned
\* results concatenated in ascending chunk index, whatever the order in
\* which the chunks of a window completed
C3_MergeOrder ==
    /\ "result" \in DOMAIN lastWrite.body
        => lastWrite.body.result.segments = SequentialSegments(0, totalChunks)
    /\ task.result # Null
        => task.result.segments = SequentialSegments(0, totalChunks)

\* chunk 1 completed before chunk 0 (it reported the lower percentage)
C3_Witness ==
    /\ task.status = "completed"
    /\ totalChunks > 1
    /\ 0 \in Survivors /\ 1 \in Survivors
    /\ pct[1] < pct[0]

\* C4: when some but not all of n > 1 chunks exhausted their retries, the
\* run ends with status completed and exactly the survivors' segments
\* (a run whose terminal write itself threw is left aside)
C4_PartialFailureCompletes ==
    (/\ RunEnded
     /\ totalChunks > 1
     /\ AllReturned
     /\ Survivors # {} /\ Exhausted # {}
     /\ "terminal" \notin failedWrites)
        => /\ task.status = "completed"
           /\ task.result # Null
           /\ task.result.segments = SequentialSegments(0, totalChunks)

C6_Attempts ==
    \A i \in ChunkIds :
        /\ uploads[i] <= RETRIES + 1
        /\ attempt[i] <= RETRIES
        /\ cpc[i] \in InRunSingleChunk
            => uploads[i] = attempt[i] + (IF cpc[i] = "upload" THEN 0 ELSE 1)
        /\ cpc[i] \in {"wait", "generate", "delete"}
            => geminiFileName[i] = <<attempt[i]>>

\* the step part of C6
C6_Returns ==
    \A i \in ChunkIds :
        \* a new attempt follows a failed one and starts with the upload
        /\ attempt'[i] > attempt[i]
            => /\ attempt'[i] = attempt[i] + 1
               /\ cpc[i] = "sleep" /\ cpc'[i] = "upload"
        \* a result is returned by the attempt that was accepted
        /\ (i \notin Returned /\ i \in Survivors')
            => /\ cpc[i] = "unlinkOk"
               /\ chunkResult'[i] = parsed[i]
               /\ HasSegments(parsed[i])
               /\ uploads[i] = attempt[i] + 1
        \* null is returned after RETRIES + 1 failed attempts
        /\ (i \notin Returned /\ i \in Exhausted')
            => /\ cpc[i] = "catchUnlink"
               /\ attempt[i] = RETRIES
               /\ uploads[i] = RETRIES + 1
        \* nothing is attempted after the return
        /\ i \in Returned
            => /\ cpc'[i] \notin InRunSingleChunk
               /\ uploads'[i] = uploads[i]
               /\ chunkResult'[i] = chunkResult[i]

\* C6: runSingleChunk uploads at most RETRIES + 1 times, once at the start
\* of each attempt; it returns the result of the first accepted attempt,
\* returns null only after RETRIES + 1 failed attempts, and attempts
\* nothing after it returned
C6_RetryBudget == []C6_Attempts /\ [][C6_Returns]_vars

C6_Witness ==
    \E i \in ChunkIds :
        cpc[i] = "unlinkOk" /\ attempt[i] = RETRIES /\ uploads[i] = RETRIES + 1

\* C7: every run comes to write a terminal status unless the terminal write
\* itself throws, and no run that ended without such a throw leaves the
\* task in processing
C7_TerminalStatus ==
    /\ <>(task.status # "processing" \/ "terminal" \in failedWrites)
    /\ [](RunEnded /\ "terminal" \notin failedWrites
            => task.status \in {"completed", "failed"})

\* a run that ended failed on an exception of the splitter
C7_Witness ==
    /\ pc = "done"
    /\ task.status = "failed"
    /\ task.error_message = Text("ffmpeg error")

\* the updateTask calls issued and not yet answered: the one the
\* orchestrator awaits and those the callbacks await
PendingWrites ==
    Cardinality({i \in ChunkIds : cpc[i] \in {"pre", "post"}})
        + (IF pc \in {"noKey", "analyze", "prepare", "assemble",
                      "complete", "catch"} THEN 1 ELSE 0)

\* the updateTask calls issued so far
Issued == answered + PendingWrites

\* C8: once the task holds a terminal status, the run issues no updateTask
C8_NoWriteAfterTerminal ==
    [][task.status \in {"completed", "failed"} => Issued' = Issued]_vars

\* C9: a run in which a progress write threw (and no terminal write did)
\* still dispatches every chunk and ends completed when a chunk produced
\* segments
C9_ProgressFailureTolerated ==
    (RunEnded /\ failedWrites = {"progress"})
        => /\ \A i \in ChunkIds : i < totalChunks => cpc[i] # "idle"
           /\ Survivors # {} => task.status = "completed"

\* C10: the file of every chunk that reached its terminal outcome has had
\* exactly one unlink issued (stated for the runs in which no updateTask
\* call threw)
C10_ChunkFileDeletedOnce ==
    failedWrites = {} => \A i \in Returned : unlinked[PathOf(i)] = 1

\* C11: once the task holds a terminal status, every chunk file the
\* splitter started to write has had an unlink issued (stated for the runs
\* in which no updateTask call threw)
C11_ChunkFilesCleaned ==
    (task.status \in {"completed", "failed"} /\ failedWrites = {})
        => \A p \in materialized : unlinked[p] >= 1

\* the upload of the attempt in progress of chunk i returned a handle
HandleObtained(i) ==
    \/ cpc[i] \in {"wait", "generate", "delete"}
    \/ cpc[i] = "catchDelete" /\ geminiFileName[i] = <<attempt[i]>>

\* the positions at which an attempt has ended: the backoff sleep, and the
\* unlink that precedes either return
AttemptEnded == {"sleep", "catchUnlink", "unlinkOk"}

\* where a failed attempt of chunk i goes: backoff, or the last unlink
FailureOutcome(i) == IF attempt[i] < RETRIES THEN "sleep" ELSE "catchUnlink"

\* the step part of C12
C12_Step ==
    \A i \in ChunkIds :
        \* the handle of this attempt has its delete issued when the attempt ends
        /\ (HandleObtained(i) /\ cpc'[i] \in AttemptEnded)
            => remoteDeleted'[i] = <<attempt[i]>>
        \* the outcome of the delete does not change what follows
        /\ (cpc[i] = "delete" /\ cpc'[i] # "delete")
            => cpc'[i] = IF HasSegments(parsed[i]) THEN "unlinkOk"
                         ELSE FailureOutcome(i)
        /\ (cpc[i] = "catchDelete" /\ cpc'[i] # "catchDelete")
            => cpc'[i] = FailureOutcome(i)

\* the state part of C12: after generation the delete is issued before the
\* reply is validated, whatever it holds
C12_State ==
    \A i \in ChunkIds :
        cpc[i] = "delete" => remoteDeleted[i] = <<attempt[i]>>

\* C12: an attempt whose upload returned a handle has a delete of that
\* handle issued before it ends, whether it fails while polling, in
\* generation, in validation, or succeeds; a failing delete changes nothing
C12_RemoteHandleDeleted == []C12_State /\ [][C12_Step]_vars

\* an attempt that failed with its handle, at its backoff, the delete issued
C12_Witness ==
    \E i \in ChunkIds :
        /\ cpc[i] = "sleep"
        /\ geminiFileName[i] = <<attempt[i]>>
        /\ remoteDeleted[i] = <<attempt[i]>>

\* the state part of C13
C13_State ==
    \A i \in ChunkIds :
        /\ waitAttempts[i] <= POLL_CEILING
        /\ cpc[i] = "generate" => fileState[i] = "ACTIVE"
        /\ fileState[i] \in {"FAILED", "PROCESSING"} => cpc[i] = "catchDelete"

\* the step part of C13: a failed wait is not followed by generate
C13_Step ==
    \A i \in ChunkIds :
        /\ cpc'[i] = "generate" => cpc[i] \in {"wait", "generate"}
        /\ (cpc[i] = "wait" /\ cpc'[i] = "generate") => fileState'[i] = "ACTIVE"
        /\ cpc[i] = "catchDelete" => cpc'[i] \in {"catchDelete"} \cup AttemptEnded

\* C13: generate is called only when the last state seen is ACTIVE; the
\* state is polled at most POLL_CEILING times after the first query; an
\* attempt that saw FAILED, or PROCESSING at the last poll, fails without
\* calling generate
C13_PollCeiling == []C13_State /\ [][C13_Step]_vars

\* an attempt that gave up after the 60th poll
C13_Witness ==
    \E i \in ChunkIds :
        /\ cpc[i] = "catchDelete"
        /\ fileState[i] = "PROCESSING"
        /\ waitAttempts[i] = POLL_CEILING

\* C14: the backoff after failed attempt k < retries is 2^k * 2000 ms
\* (2000, then 4000), and no backoff follows the last failed attempt
C14_Backoff ==
    \A i \in ChunkIds :
        /\ cpc[i] = "sleep"
            => /\ attempt[i] < RETRIES
               /\ timer[i] = <<2000, 4000>>[attempt[i] + 1]
        /\ cpc[i] # "sleep" => timer[i] = 0
        /\ cpc[i] = "catchUnlink" => attempt[i] = RETRIES

C14_Witness ==
    \E i \in ChunkIds : cpc[i] = "sleep" /\ attempt[i] = 1 /\ timer[i] = 4000

\* the step part of C15
C15_Step ==
    \A i \in ChunkIds :
        \* a reply that fails validation
        /\ (cpc[i] = "delete" /\ ~HasSegments(parsed[i]) /\ cpc'[i] # "delete")
            => /\ cpc'[i] = FailureOutcome(i)
               /\ i \notin Returned'
        \* a failure of the service, without and with a remote file to delete
        /\ (cpc[i] \in {"upload", "wait", "generate"}
                /\ cpc'[i] \notin {"upload", "wait", "generate", "delete"})
            => cpc'[i] \in {"catchDelete", FailureOutcome(i)}
        /\ (cpc[i] = "catchDelete" /\ cpc'[i] # "catchDelete")
            => cpc'[i] = FailureOutcome(i)
        \* the last failed attempt yields null
        /\ (cpc[i] = "catchUnlink" /\ cpc'[i] # "catchUnlink")
            => /\ attempt[i] = RETRIES
               /\ chunkResult'[i] = Null

\* C15: a reply that fails validation is handled like a failure of the
\* service: backoff and a new attempt when it is not the last attempt, null
\* on the last, and never more than RETRIES + 1 attempts for any mix
C15_ValidationFailureRetried ==
    /\ [](\A i \in ChunkIds : uploads[i] <= RETRIES + 1 /\ attempt[i] <= RETRIES)
    /\ [][C15_Step]_vars

\* the second attempt failed validation and is followed by a backoff
C15_Witness ==
    \E i \in ChunkIds :
        /\ cpc[i] = "sleep"
        /\ attempt[i] = 1
        /\ geminiFileName[i] = <<>>
        /\ remoteDeleted[i] = <<1>>

\* C16: without the key the run writes failed and returns: it never probes,
\* splits, dispatches a chunk or uploads, and issues that one write only
C16_MissingKey ==
    ~hasKey
        => /\ pc \in {"start", "noKey", "done", "rejected"}
           /\ chunks = <<>> /\ materialized = {}
           /\ \A i \in ChunkIds :
                cpc[i] = "idle" /\ uploads[i] = 0 /\ attempt[i] = 0
           /\ Issued <= 1
           /\ pc = "done"
                => /\ task.status = "failed"
                   /\ task.error_message = Text("GEMINI_API_KEY is not configured")
                   /\ task.result = Null

C16_Witness == ~hasKey /\ pc = "done" /\ task.status = "failed"

\* the position of the orchestrator once an exception was caught
AfterCatch == {"catch", "unlinkAfterFailure", "done", "rejected"}

\* the state part of C17: the run rejects only when a terminal write threw
C17_State == pc = "rejected" => "terminal" \in failedWrites

\* the step part of C17
C17_Step ==
    \* the message caught is that of the exception thrown
    /\ (pc # "catch" /\ pc' = "catch")
        => err' = CASE pc = "split" -> Text("ffmpeg error")
                    [] pc = "assemble" /\ lastWrite'.ok -> NoSegmentsError
                    [] OTHER -> DirectusError
    /\ (pc # "catch" /\ pc' = "catch" /\ err' = DirectusError)
        => (answered' = answered + 1 /\ ~lastWrite'.ok)
    \* the failed write carries it
    /\ (pc = "catch" /\ pc' # "catch")
        => /\ lastWrite'.body = [status |-> "failed", error_message |-> err]
           /\ lastWrite'.ok
                => /\ pc' = "unlinkAfterFailure"
                   /\ task'.status = "failed"
                   /\ task'.error_message = err
           /\ ~lastWrite'.ok => pc' = "rejected"
    \* then the source is unlinked and the function returns
    /\ (pc = "unlinkAfterFailure" /\ pc' # "unlinkAfterFailure")
        => /\ pc' = "done"
           /\ unlinked'[tempFilePath] = unlinked[tempFilePath] + 1
    \* the catch block is entered once
    /\ pc \in AfterCatch => (pc' \in AfterCatch /\ (pc # "catch" => pc' # "catch"))

\* C17: an exception of splitting, dispatch or merging is caught once at the
\* top level, the task is written failed with the exception's message, an
\* unlink of the source follows, and the function returns normally when the
\* failed write succeeded
C17_TopLevelCatch == []C17_State /\ [][C17_Step]_vars

\* a run that failed on an error of the store, the source unlinked
C17_Witness ==
    /\ pc = "done"
    /\ err = DirectusError
    /\ task.status = "failed" /\ task.error_message = DirectusError
    /\ unlinked[tempFilePath] >= 1

\* C18: a completed run has issued exactly one unlink of the source: by
\* runSingleChunk when the source was the only chunk, by the orchestrator
\* after the merge when chunks were cut, and the orchestrator issues none
\* when the only chunk was the source
C18_SourceDeletedOnce ==
    /\ task.status = "completed" => unlinked[tempFilePath] = 1
    /\ pc = "unlinkSource"
        => (PathOf(0) # tempFilePath /\ unlinked[tempFilePath] = 0)
    /\ (pc = "complete" /\ PathOf(0) = tempFilePath)
        => (totalChunks = 1 /\ 0 \in Survivors /\ unlinked[tempFilePath] = 1)

C18_Witness ==
    /\ task.status = "completed"
    /\ totalChunks = 1 /\ PathOf(0) = tempFilePath
    /\ unlinked[tempFilePath] = 1

\* the sum of the durations of chunks k .. n of the plan
RECURSIVE SumDurations(_, _)
SumDurations(plan, k) ==
    IF k > Len(plan) THEN 0 ELSE plan[k].durationSec + SumDurations(plan, k + 1)

\* C19: a source of D > CHUNK_DURATION_SEC whole seconds is cut into
\* ceil(D / CHUNK_DURATION_SEC) chunks in index order, chunk i starting at
\* i * CHUNK_DURATION_SEC, all of full length but the last, which takes the
\* rest; the durations are positive, contiguous and sum to D
C19_ChunkPlan ==
    LET D == sourceDuration
        n == totalChunks
    IN  /\ (pc = "await" /\ PathOf(0) # tempFilePath)
            => /\ D > CHUNK_DURATION_SEC
               /\ (n - 1) * CHUNK_DURATION_SEC < D
               /\ D <= n * CHUNK_DURATION_SEC
               /\ \A k \in 1 .. n :
                    /\ chunks[k].path = ChunkPath(k - 1)
                    /\ chunks[k].startSec = (k - 1) * CHUNK_DURATION_SEC
                    /\ chunks[k].durationSec =
                            IF k < n THEN CHUNK_DURATION_SEC
                            ELSE D - (n - 1) * CHUNK_DURATION_SEC
                    /\ chunks[k].durationSec > 0
                    /\ chunks[k].startSec + chunks[k].durationSec =
                            IF k < n THEN chunks[k + 1].startSec ELSE D
               /\ SumDurations(chunks, 1) = D
        /\ (pc = "await" /\ hasFfmpeg /\ D > CHUNK_DURATION_SEC
                /\ PathOf(0) = tempFilePath)
            => splitAudioIntoChunks(TRUE, TRUE, D)[1].path # tempFilePath

\* a source of two chunk lengths and one second
C19_Witness ==
    /\ pc = "await"
    /\ totalChunks = 3
    /\ chunks[3].startSec = 2 * CHUNK_DURATION_SEC
    /\ chunks[3].durationSec = 1

\* C20: without ffmpeg, when ffprobe fails or reports no positive
\* duration, or when the source is no longer than one chunk, the splitter
\* returns the source itself as the only chunk, at offset 0, and starts no
\* ffmpeg run; it throws only from an ffmpeg run
C20_WholeSource ==
    /\ (pc = "await" /\ (~hasFfmpeg \/ sourceDuration <= CHUNK_DURATION_SEC))
        => (chunks = <<WholeSource>> /\ materialized = {})
    /\ (pc = "await" /\ PathOf(0) = tempFilePath)
        => (totalChunks = 1 /\ chunks[1].startSec = 0 /\ materialized = {})
    /\ pc = "catch"
        => (hasFfmpeg /\ sourceDuration > CHUNK_DURATION_SEC /\ materialized # {})
    /\ \A probeOk \in BOOLEAN :
        getAudioDuration(hasFfmpeg, probeOk, sourceDuration) = <<>>
            => splitAudioIntoChunks(hasFfmpeg, probeOk, sourceDuration)
                    = <<WholeSource>>

\* a source of exactly one chunk length, probed, left whole
C20_Witness ==
    /\ pc = "await"
    /\ hasFfmpeg
    /\ sourceDuration = CHUNK_DURATION_SEC
    /\ chunks = <<WholeSource>>

\* the number of seconds a timecode stands for
Seconds(timeStr) ==
    Field(timeStr, 1) * 3600 + Field(timeStr, 2) * 60 + Field(timeStr, 3)

\* the sum of the durations of chunks 0 .. i-1 of the run
RECURSIVE PrefixDuration(_)
PrefixDuration(i) ==
    IF i = 0 THEN 0 ELSE PrefixDuration(i - 1) + chunks[i].durationSec

\* C21: the offset added to the segments of chunk i is the sum of the
\* durations of the chunks before it, and every merged segment of chunk i
\* starts and ends that sum later than in the reply, not before the
\* chunk's start
C21_OffsetIsPrefixSum ==
    /\ \A i \in ChunkIds :
        i < totalChunks => i * CHUNK_DURATION_SEC = PrefixDuration(i)
    /\ task.result # Null
        => \A k \in 1 .. Len(task.result.segments) :
            LET seg == task.result.segments[k]
                i == seg.text[1]
                local == LocalSegment(i, seg.text[2])
            IN  /\ Seconds(seg.start) = Seconds(local.start) + PrefixDuration(i)
                /\ Seconds(seg.end) = Seconds(local.end) + PrefixDuration(i)
                /\ Seconds(seg.start) >= chunks[i + 1].startSec

\* the third chunk of a 1500 s source, merged from 1200 s on
C21_Witness ==
    /\ task.status = "completed"
    /\ sourceDuration = 1500 /\ totalChunks = 3
    /\ \E k \in 1 .. Len(task.result.segments) :
        /\ task.result.segments[k].text[1] = 2
        /\ Seconds(task.result.segments[k].start) >= 1200

\* the last non-empty language among the survivors below index n
RECURSIVE LastLanguage(_)
LastLanguage(n) ==
    IF n = 0 THEN ""
    ELSE IF (n - 1) \in Survivors /\ chunkResult[n - 1].detected_language # ""
    THEN chunkResult[n - 1].detected_language
    ELSE LastLanguage(n - 1)

\* the largest speaker count among the survivors, 1 when none is positive
MostSpeakers ==
    LET counts == {chunkResult[i].speakers_count : i \in Survivors} \cup {1}
    IN  CHOOSE m \in counts : \A c \in counts : c <= m

Rounded(k, n) ==
    CHOOSE r \in 0 .. 75 : 2 * n * r - n <= 150 * k /\ 150 * k < 2 * n * r + n

\* C24: the k-th completion of n chunks reports 15 + round(75 * k / n), which
\* is no less than any percentage reported before, lies within 15 .. 90 and
\* is 90 at the last completion
C24_Step ==
    \A i \in ChunkIds :
        (chunkResult[i] = Undefined /\ chunkResult'[i] # Undefined)
            => /\ pct'[i] = 15 + Rounded(Cardinality(Returned) + 1, totalChunks)
               /\ \A j \in Returned : pct[j] <= pct'[i]
               /\ pct'[i] \in 15 .. 90
               /\ Cardinality(Returned) + 1 = totalChunks => pct'[i] = 90
C24_Percentage == [][C24_Step]_vars

\* two chunks: 53 at the first completion (37.5 rounds up), 90 at the second
C24_Witness ==
    /\ totalChunks = 2
    /\ AllReturned
    /\ {pct[0], pct[1]} = {53, 90}

\* the completion message of chunk i was written
Written(i) == cpc[i] = "done"

\* C25 as stated: completion messages are written in ascending chunk-index
\* order over a run
C25_Step ==
    \A i \in ChunkIds :
        (~Written(i) /\ Written(i)')
            => \A j \in ChunkIds : j > i => ~Written(j)
C22_OffsetsCompose ==
    (call.fn = "addOffsetToTimestamp" /\ call.returned)
        => /\ call.twice = call.once
           /\ call.zero = call.timeStr

\* 23:59:59 shifted by 1 and then by a chunk: both shifts carry, and the
\* hour passes 24
C22_Witness ==
    /\ call.fn = "addOffsetToTimestamp" /\ call.returned
    /\ call.timeStr = <<TwoDigits(23), TwoDigits(59), TwoDigits(59)>>
    /\ call.a = 1 /\ call.b = CHUNK_DURATION_SEC
    /\ call.twice = <<TwoDigits(24), TwoDigits(10), TwoDigits(0)>>

\* C26: runSingleChunk returns a result only when the reply parsed to an
\* object whose segments field is a non-empty list, so every result the
\* orchestrator receives has segments it can iterate
C26_OnlySegmentListsAccepted ==
    \A i \in Survivors :
        /\ "segments" \in DOMAIN chunkResult[i]
        /\ Len(chunkResult[i].segments) > 0
        /\ IsArray(chunkResult[i].segments)

\* the value has every field the response schema requires
Complete(value) == Required \subseteq DOMAIN value

\* C27 as stated: the repair pass runs when the strict parse fails and when
\* it succeeds with required fields missing, and not when it yields a
\* complete object
C27_RepairWhenIncomplete ==
    (call.fn = "parseGeminiJson" /\ call.returned)
        => (call.trace.repair
                <=> \/ call.trace.strict = "threw"
                    \/ /\ call.trace.strict = "returned"
                       /\ ~Complete(JSONparse(call.rawText).value))

\* C27: the repair pass runs exactly when the strict parse throws; what a
\* strict parse yields is returned as it is, complete or not
C27_RepairWhenStrictThrows ==
    (call.fn = "parseGeminiJson" /\ call.returned)
        => /\ call.trace.value = call.value
           /\ call.trace.repair <=> call.trace.strict = "threw"
           /\ call.trace.strict = "threw" <=> (~IsBlank(call.rawText)
                                                /\ JSONparse(call.rawText).threw)
           /\ call.trace.strict = "returned"
                => call.value = JSONparse(call.rawText).value

\* strict JSON without a segments field: returned as parsed, no repair
C27_Witness ==
    /\ call.fn = "parseGeminiJson" /\ call.returned
    /\ call.rawText = [form |-> "json", value |-> NoSegmentsReply]
    /\ ~call.trace.repair
    /\ call.value = NoSegmentsReply
    /\ ~Complete(call.value)

\* C28: a step of runSingleChunk for chunk i either stays inside the call
\* or returns a value to the callback (a result or null); it never moves
\* the orchestrator, whose catch block is entered by no such step
C28_Step ==
    \A i \in ChunkIds :
        (cpc[i] \in InRunSingleChunk /\ cpc'[i] # cpc[i])
            => /\ cpc'[i] \in InRunSingleChunk \cup {"post"}
               /\ cpc'[i] = "post" => chunkResult'[i] # Undefined
               /\ pc' = pc /\ err' = err /\ batchStart' = batchStart
C28_NeverRaises == [][C28_Step]_vars

\* chunk 0 exhausted its retries and returned null while chunk 1 of the
\* same window is still in its call, and the window is still awaited
C28_Witness ==
    /\ pc = "await"
    /\ failedWrites = {}
    /\ chunkResult[0] = Null /\ cpc[0] = "done"
    /\ cpc[1] \in InRunSingleChunk

\* the state part of C29: while the status is processing no result is held
C29_State ==
    task.status = "processing"
        => (task.result = Null /\ task.language = "" /\ task.speakers_count = 0)

\* the step part of C29
C29_Step ==
    \* the task changes only when an updateTask call is answered
    /\ answered' = answered => task' = task
    \* a write without status carries error_message alone and changes no
    \* other field
    /\ (answered' # answered /\ "status" \notin DOMAIN lastWrite'.body)
        => /\ DOMAIN lastWrite'.body = {"error_message"}
           /\ \A f \in DOMAIN task \ {"error_message"} : task'[f] = task[f]
    \* the status is set by a write that carries one, once
    /\ task'.status # task.status
        => /\ task.status = "processing"
           /\ "status" \in DOMAIN lastWrite'.body
           /\ lastWrite'.ok
           /\ task'.status = lastWrite'.body.status
    /\ task.status # "processing"
        => (task'.status = task.status /\ task'.result = task.result)

\* C29: every write before the terminal write changes error_message only;
\* the status stays processing and the result absent until the one
\* terminal write, the only write that sets the status
C29_StatusSetOnce == []C29_State /\ [][C29_Step]_vars

\* a completed three-chunk run: eight progress writes, then the terminal one
C29_Witness ==
    /\ task.status = "completed"
    /\ totalChunks = 3
    /\ failedWrites = {}
    /\ answered = 10
    /\ "status" \in DOMAIN lastWrite.body

\* C30: the handler creates the task, with status processing, before it
\* starts the pipeline; it starts one run for a task it created and none
\* when the creation failed or was not reached
C30_OneRunPerTask ==
    /\ request.runs <= 1
    /\ pc # "idle" <=> request.runs = 1
    /\ request.runs = 1 => (request = Accepted /\ task.status # "absent")
    /\ pc = "start" => (task = Created([status |-> "processing"])
                        /\ answered = 0)
    /\ (request.at = "responded" /\ request.status # 200)
        => (pc = "idle" /\ task = NoTask /\ answered = 0)
    /\ request.at # "responded" => (pc = "idle" /\ task = NoTask)

\* the task was created and its one run is about to read the key
C30_Witness ==
    /\ request = Accepted
    /\ pc = "start"
    /\ task.status = "processing"

\* the string holds JSON of an object whose segments field is a list
ParsesToSegments(result) ==
    /\ result.string.form = "json"
    /\ result.string.value # Null
    /\ "segments" \in DOMAIN result.string.value
    /\ IsArray(result.string.value.segments)

\* C31: normalizeTaskResult returns a null result and an object result with
\* a segments list unchanged, replaces a string that parses to such an
\* object by the parsed object and every other string by the truncated
\* placeholder, so a string result always comes back as an object with a
\* segments list; no other field of the record changes
C31_NormalizedResult ==
    (call.fn = "normalizeTaskResult" /\ call.returned)
        => LET result == call.data.result
               safe == call.safe
           IN  /\ safe.status = call.data.status
               /\ result = Null => safe = call.data
               /\ (/\ result \notin {Null, Undefined}
                   /\ TypeOf(result) = "object"
                   /\ HasArraySegments(result))
                    => safe = call.data
               /\ (result \notin {Null, Undefined} /\ TypeOf(result) = "string")
                    => /\ TypeOf(safe.result) = "object"
                       /\ HasArraySegments(safe.result)
                       /\ ParsesToSegments(result)
                            => safe.result = result.string.value
                       /\ ~ParsesToSegments(result)
                            => safe.result = TruncatedResult

\* a truncated string (JSON.parse throws on it) replaced by the placeholder
C31_Witness ==
    /\ call.fn = "normalizeTaskResult" /\ call.returned
    /\ call.data.result = [string |-> [form |-> "broken", value |-> GoodReply(0)]]
    /\ call.safe.result = TruncatedResult
    /\ call.safe.status = "completed"

\* C33: the remote delete an attempt issues is of the handle its own upload
\* returned, so a handle is deleted once and an attempt whose upload failed
\* deletes nothing
C33_DeleteOncePerHandle ==
    \A i \in ChunkIds :
        /\ remoteDeleted[i] # <<>> => remoteDeleted[i] = <<attempt[i]>>
        /\ cpc[i] = "catchDelete" => geminiFileName[i] = <<attempt[i]>>

\* the positions of a callback at which an upload of its file is in
\* progress or still to come
BeforeLastUpload ==
    {"pre", "upload", "wait", "generate", "delete", "catchDelete", "sleep"}

C35_CompletedCounter ==
    /\ completedChunks = Cardinality(Returned)
    /\ pc \in {"assemble", "unlinkSource", "complete"}
        => completedChunks = totalChunks

\* both chunks of the first window have returned, chunk 1 first
C35_Witness ==
    /\ totalChunks = 3
    /\ pc = "await" /\ batchStart = 0
    /\ pct[1] < pct[0] /\ pct[1] > 0
    /\ completedChunks = 2

\* the segments of res are ordered by start and start within a chunk's
\* duration
WellTimed(res) ==
    /\ \A k \in 1 .. Len(res.segments) :
        Seconds(res.segments[k].start) <= CHUNK_DURATION_SEC
    /\ \A k \in 1 .. (Len(res.segments) - 1) :
        Seconds(res.segments[k].start) <= Seconds(res.segments[k + 1].start)

\* C36: when the segments of every surviving chunk are ordered by start and
\* lie within the chunk, the merged segments are ordered by start
C36_MergedOrder ==
    (/\ call.fn = "merge" /\ call.returned
     /\ \A i \in DOMAIN call.res :
            HasSegments(call.res[i]) => WellTimed(call.res[i]))
        => \A p \in 1 .. (Len(call.allSegments) - 1) :
            Seconds(call.allSegments[p].start)
                <= Seconds(call.allSegments[p + 1].start)

\* chunk 0 ends with a segment that starts at its very end, chunk 1 failed,
\* chunk 2 follows: the seam is crossed in order
C36_Witness ==
    /\ call.fn = "merge" /\ call.returned
    /\ DOMAIN call.res = 0 .. 2
    /\ call.res[0] = ReplyWith(0, 3)
    /\ call.res[1] = Null
    /\ call.res[2] = ReplyWith(2, 2)
    /\ Len(call.allSegments) = 4
    /\ Seconds(call.allSegments[2].start) = CHUNK_DURATION_SEC
    /\ Seconds(call.allSegments[3].start) = 2 * CHUNK_DURATION_SEC + 5

\* the segments of the surviving chunks of res, as replied, from index i on
RECURSIVE Replied(_, _, _)
Replied(res, i, n) ==
    IF i >= n THEN <<>>
    ELSE (IF res[i] # Null THEN res[i].segments ELSE <<>>)
            \o Replied(res, i + 1, n)

\* C37: the merged segments are the segments of the surviving chunks, each
\* once, in chunk order and in their order in the reply, the same but for
\* start and end
C37_OnlyTimesChange ==
    (call.fn = "merge" /\ call.returned)
        => LET replied == Replied(call.res, 0, Cardinality(DOMAIN call.res))
           IN  /\ Len(call.allSegments) = Len(replied)
               /\ \A p \in 1 .. Len(replied) :
                    /\ call.allSegments[p].speaker = replied[p].speaker
                    /\ call.allSegments[p].text = replied[p].text
                    /\ [call.allSegments[p] EXCEPT
                            !.start = replied[p].start,
                            !.end = replied[p].end] = replied[p]

\* two survivors around a failed chunk: three segments, "Speaker A" of chunk
\* 2 still "Speaker A", its start moved by two chunks
C37_Witness ==
    /\ call.fn = "merge" /\ call.returned
    /\ DOMAIN call.res = 0 .. 2
    /\ call.res[0] = ReplyWith(0, 2)
    /\ call.res[1] = Null
    /\ call.res[2] = ReplyWith(2, 1)
    /\ Len(call.allSegments) = 3
    /\ call.allSegments[3].speaker = "Speaker A"
    /\ call.allSegments[3].text = <<2, 1>>
    /\ call.allSegments[3].start # call.res[2].segments[1].start

\* C38: the completed write does not send error_message, so the completed
\* task still holds the last progress message of the run, "assembling"
C38_MessageKept ==
    /\ ("status" \in DOMAIN lastWrite.body /\ lastWrite.body.status = "completed")
        => /\ "error_message" \notin DOMAIN lastWrite.body
           /\ CompletedPatch.error_message = Undefined
    /\ task.status = "completed" => task.error_message = Text("assembling")

\* a completed task of a run in which no write failed
C38_Witness ==
    /\ pc = "done"
    /\ task.status = "completed"
    /\ lastWrite.ok /\ lastWrite.body.status = "completed"
    /\ task.error_message = Text("assembling")

\* C39: the timecode returned for a shift by a + b has three fields of at
\* least two digits, no digit more than the number needs, minutes and
\* seconds within 0 .. 59, and stands for the seconds of the input plus the
\* offset, the hours running past 23
C39_FieldsAndTotal ==
    (call.fn = "addOffsetToTimestamp" /\ call.returned)
        => LET out == call.once
               total == Seconds(call.timeStr) + call.a + call.b
           IN  /\ Len(out) = 3
               /\ \A k \in 1 .. 3 :
                    /\ Len(out[k]) >= 2
                    /\ \A d \in 1 .. Len(out[k]) : out[k][d] \in 0 .. 9
                    /\ Len(out[k]) > 2 => out[k][1] # 0
               /\ Number(out[2]) \in 0 .. 59
               /\ Number(out[3]) \in 0 .. 59
               /\ Number(out[1]) = total \div 3600
               /\ Number(out[1]) * 3600 + Number(out[2]) * 60 + Number(out[3])
                    = total

\* 23:00:01 shifted by a day and 3599 seconds is 48:00:00
C39_Witness ==
    /\ call.fn = "addOffsetToTimestamp" /\ call.returned
    /\ call.timeStr = <<TwoDigits(23), TwoDigits(0), TwoDigits(1)>>
    /\ call.a = 86400 /\ call.b = 3599
    /\ call.once = <<TwoDigits(48), TwoDigits(0), TwoDigits(0)>>

=============================================================================
